---- MODULE Spec2Model ----
(***************************************************************************)
(* Tool discovery, TTL cache, record normalisation, action execution and  *)
(* Slack alert of the hedge fund research workflow                         *)
(* (src/src/workflows/hedge_fund_research.py, src/src/utils/cache_utils.py, *)
(* the dispatcher of scripts/try_sheets_execute.py and the listing of      *)
(* scripts/list_composio_tools.py).                                        *)
(*                                                                         *)
(* Python values are tagged tuples: <<"none">>, <<"int", n>>,              *)
(* <<"str", s>>, <<"list", seq>>, <<"tuple", seq>>, <<"dict", f>> with f a *)
(* function from string keys to values, and <<"obj">> for an object the    *)
(* json module cannot serialise.                                           *)
(***************************************************************************)
EXTENDS Integers, Sequences, FiniteSets, TLC

VARIABLES
    file,       \* content of the cache file on disk
    now,        \* time.time()
    op,         \* the cache operation performed last: <<name, key, argument>>
    ret,        \* its outcome: <<"ret", value>> or <<"raise", exception>>
    saved,      \* per key, the value given to the latest completed save whose
                \* entry no later save has removed from the file
    given,      \* per key, the value given to the latest completed save
    nstage,     \* normaliser harness: "raw", "normalized", "renormalized"
    item,       \* normaliser harness: the raw source mapping
    grp,        \* normaliser harness: the toolkit the item is discovered under
    rec,        \* normaliser harness: the record derived from item
    rec2,       \* normaliser harness: the record derived from rec
    cfg,        \* installed adapters: which of v3, list, get, http exist
    pc,         \* position of run_research in its discovery part
    runs,       \* number of workflow runs started
    runLimit,   \* number of workflow runs the behaviour explores
    desired,    \* desired_toolkits of the current run
    pending,    \* toolkits the for loop of line 231 has not visited yet
    cur,        \* slug: the toolkit being fetched
    entries,    \* entries collected for cur
    calls,      \* adapter invocations made for cur, in order
    groupRecords, \* records appended to the catalog for cur
    tool_catalog, \* the local catalog list before deduplication
    catalog,    \* self.tool_catalog, the outcome of discovery
    hit,        \* the current run took its catalog from the cache
    raisedIn,   \* toolkits for which an adapter invocation raised in this run
    fetched,    \* toolkits the for loop has visited in this run, in order
    delayed,    \* the clock moved between the lookup and the end of the latest discovery
    whitelistA, \* key harness: COMPOSIO_TOOLKIT_WHITELIST of one run
    whitelistB, \* key harness: COMPOSIO_TOOLKIT_WHITELIST of another run
    keyA,       \* key harness: the cache key built from whitelistA
    keyB,       \* key harness: the cache key built from whitelistB
    kstage,     \* key harness: "raw", "keyed", "stored", "looked"
    writers,    \* concurrent saves: per process, its position and locals
    flushOrder, \* concurrent saves: the processes in the order their writes ended
    inst,       \* execution: the dispatcher and the clients installed for it
    actions,    \* execution: the prepared actions, each {action, params}
    idx,        \* execution: position of the loop over actions (line 416)
    xpc,        \* execution: position inside _execute_action
    rest,       \* execution: method names the script's for loop has not tried
    xcalls,     \* execution: the calls made to clients, in order
    errors,     \* execution: the script's list "errors"
    given_errors, \* execution: the list the script's caller passed as "errors"
    xlog,       \* execution: the records given to logger.error
    outcome,    \* execution: what the latest _execute_action returned
    execution_results, \* execution: the list built by lines 415-419
    lcfg,       \* listing: v3_client (or None) and primary_client
    lpc,        \* listing: position of list_tools
    todo,       \* listing: the toolkits the for loop has not finished
    tools,      \* listing: the variable "tools" of the loop body
    last_error, \* listing: the variable "last_error" of the loop body
    lcalls,     \* listing: the calls made for the current toolkit
    printed,    \* listing: per finished toolkit, what was printed
    catalogA,   \* key harness: the catalog the first run discovered and saved
    saver,      \* load during save: the process inside save_cache
    loader,     \* load during save: the process inside load_cache
    wf,         \* Slack alert: the attributes of the workflow object
    research_text, \* Slack alert: the text the model produced
    spc,        \* Slack alert: position of run_research after the research
    slack_action, \* Slack alert: what _prepare_slack_action returned
    executed    \* Slack alert: the actions given to _execute_action

cacheVars == <<file, now, op, ret, saved, given>>
normVars == <<nstage, item, grp, rec, rec2>>
discVars == <<cfg, pc, runs, runLimit, desired, pending, cur, entries, calls, groupRecords,
              tool_catalog, catalog, hit, raisedIn, fetched, delayed>>
keyVars == <<whitelistA, whitelistB, keyA, keyB, catalogA, kstage>>
concVars == <<writers, flushOrder>>
execVars == <<inst, actions, idx, xpc, rest, xcalls, errors, given_errors, xlog, outcome,
              execution_results>>
listVars == <<lcfg, lpc, todo, tools, last_error, lcalls, printed>>
raceVars == <<saver, loader>>
slackVars == <<wf, research_text, spc, slack_action, executed>>
vars == <<file, now, op, ret, saved, given, nstage, item, grp, rec, rec2,
          cfg, pc, runs, runLimit, desired, pending, cur, entries, calls, groupRecords,
          tool_catalog, catalog, hit, raisedIn, fetched, delayed,
          whitelistA, whitelistB, keyA, keyB, catalogA, kstage, writers, flushOrder,
          inst, actions, idx, xpc, rest, xcalls, errors, given_errors, xlog, outcome,
          execution_results, lcfg, lpc, todo, tools, last_error, lcalls, printed,
          saver, loader, wf, research_text, spc, slack_action, executed>>

----------------------------------------------------------------------------
(* Python values *)

PyNone == <<"none">>
PyObj == <<"obj">>
PyInt(n) == <<"int", n>>
PyStr(s) == <<"str", s>>
PyList(q) == <<"list", q>>
PyTuple(q) == <<"tuple", q>>
PyDict(f) == <<"dict", f>>

\* a dict whose keys are integers: f maps the decimal text of each key to its
\* value
PyIntDict(f) == <<"intdict", f>>

Tag(v) == v[1]

EmptyDict == PyDict(<<>>)

\* bool(v)
Truthy(v) ==
    CASE Tag(v) = "none" -> FALSE
      [] Tag(v) = "int" -> v[2] # 0
      [] Tag(v) = "str" -> v[2] # ""
      [] Tag(v) \in {"list", "tuple"} -> Len(v[2]) > 0
      [] Tag(v) \in {"dict", "intdict"} -> DOMAIN v[2] # {}
      [] OTHER -> TRUE

\* a or b
PyOr(a, b) == IF Truthy(a) THEN a ELSE b

\* d.get(k) for a dict d
DictGet(d, k) == IF k \in DOMAIN d[2] THEN d[2][k] ELSE PyNone

\* d[k] = v for a dict d
DictSet(d, k, v) ==
    PyDict([x \in (DOMAIN d[2]) \cup {k} |-> IF x = k THEN v ELSE d[2][x]])

\* str.lower() on the strings of the model
Lower(s) ==
    CASE s = "A" -> "a"
      [] s = "B" -> "b"
      [] OTHER -> s

----------------------------------------------------------------------------
(* json.dump / json.load *)

RECURSIVE Serializable(_)
\* json.dump(v) completes
Serializable(v) ==
    CASE Tag(v) \in {"none", "int", "str"} -> TRUE
      [] Tag(v) \in {"list", "tuple"} -> \A i \in 1..Len(v[2]) : Serializable(v[2][i])
      [] Tag(v) \in {"dict", "intdict"} -> \A k \in DOMAIN v[2] : Serializable(v[2][k])
      [] OTHER -> FALSE

RECURSIVE JsonRoundTrip(_)
\* json.load of what json.dump wrote for v: arrays are read back as lists,
\* and the keys of an object are strings, an integer key being written as
\* its decimal text
JsonRoundTrip(v) ==
    CASE Tag(v) \in {"none", "int", "str"} -> v
      [] Tag(v) \in {"list", "tuple"} ->
            PyList([i \in 1..Len(v[2]) |-> JsonRoundTrip(v[2][i])])
      [] Tag(v) \in {"dict", "intdict"} ->
            PyDict([k \in DOMAIN v[2] |-> JsonRoundTrip(v[2][k])])
      [] OTHER -> v

----------------------------------------------------------------------------
(* The cache file: <<"absent">>, <<"garbage">> (not parseable as JSON),     *)
(* <<"empty">> (no bytes: truncated by an open for write that has not      *)
(* written yet), <<"json", document>>, or <<"unreadable", content>>: a     *)
(* file that exists with that content and that open(path, "r") fails on.   *)

Absent == <<"absent">>
Empty == <<"empty">>
Garbage == <<"garbage">>
JsonFile(doc) == <<"json", doc>>
WriteOnly(content) == <<"unreadable", content>>

\* what the file holds, whether or not it can be opened for reading
Content(f) == IF f[1] = "unreadable" THEN f[2] ELSE f

\* the file after open(path, "w") and the write of content: the write
\* replaces what the file holds and leaves its permissions as they were
Rewritten(f, content) == IF f[1] = "unreadable" THEN WriteOnly(content) ELSE content

Ret(v) == <<"ret", v>>
Raise(e) == <<"raise", e>>

\* load_cache with the entry expiring at the boundary already
load_cache_expire_at_boundary(f, key, max_age, t) ==
    IF f = Absent THEN Ret(PyNone)
    ELSE IF f[1] # "json" THEN Ret(PyNone)
    ELSE LET payload == f[2] IN
      IF Tag(payload) # "dict" THEN Raise("AttributeError")
      ELSE LET entry == DictGet(payload, key) IN
        IF ~Truthy(entry) THEN Ret(PyNone)
        ELSE IF Tag(entry) # "dict" THEN Raise("AttributeError")
        ELSE LET ts == DictGet(entry, "ts") IN
          IF ts = PyNone THEN Ret(PyNone)
          ELSE IF max_age # PyNone /\ Tag(ts) # "int" THEN Raise("TypeError")
          ELSE IF max_age # PyNone /\ (t - ts[2]) >= max_age[2] THEN Ret(PyNone)
          ELSE Ret(DictGet(entry, "value"))

\* load_cache with a stored falsy value treated as a miss
load_cache_falsy_is_miss(f, key, max_age, t) ==
    IF f = Absent THEN Ret(PyNone)
    ELSE IF f[1] # "json" THEN Ret(PyNone)
    ELSE LET payload == f[2] IN
      IF Tag(payload) # "dict" THEN Raise("AttributeError")
      ELSE LET entry == DictGet(payload, key) IN
        IF ~Truthy(entry) THEN Ret(PyNone)
        ELSE IF Tag(entry) # "dict" THEN Raise("AttributeError")
        ELSE LET ts == DictGet(entry, "ts") IN
          IF ts = PyNone THEN Ret(PyNone)
          ELSE IF max_age # PyNone /\ Tag(ts) # "int" THEN Raise("TypeError")
          ELSE IF max_age # PyNone /\ (t - ts[2]) > max_age[2] THEN Ret(PyNone)
          ELSE Ret(PyOr(DictGet(entry, "value"), PyNone))

\* load_cache without the try of lines 23-27: a file that does not parse
\* raises
load_cache_unguarded(f, key, max_age, t) ==
    IF f = Absent THEN Ret(PyNone)
    ELSE IF f[1] # "json" THEN Raise("JSONDecodeError")
    ELSE LET payload == f[2] IN
      IF Tag(payload) # "dict" THEN Raise("AttributeError")
      ELSE LET entry == DictGet(payload, key) IN
        IF ~Truthy(entry) THEN Ret(PyNone)
        ELSE IF Tag(entry) # "dict" THEN Raise("AttributeError")
        ELSE LET ts == DictGet(entry, "ts") IN
          IF ts = PyNone THEN Ret(PyNone)
          ELSE IF max_age # PyNone /\ Tag(ts) # "int" THEN Raise("TypeError")
          ELSE IF max_age # PyNone /\ (t - ts[2]) > max_age[2] THEN Ret(PyNone)
          ELSE Ret(DictGet(entry, "value"))

\* load_cache(path, key, max_age_seconds) at time t; max_age is PyNone or PyInt
load_cache(f, key, max_age, t) ==
    IF f = Absent THEN Ret(PyNone)
    ELSE IF f[1] # "json" THEN Ret(PyNone)
    ELSE LET payload == f[2] IN
      IF Tag(payload) # "dict" THEN Raise("AttributeError")
      ELSE LET entry == DictGet(payload, key) IN
        IF ~Truthy(entry) THEN Ret(PyNone)
        ELSE IF Tag(entry) # "dict" THEN Raise("AttributeError")
        ELSE LET ts == DictGet(entry, "ts") IN
          IF ts = PyNone THEN Ret(PyNone)
          ELSE IF max_age # PyNone /\ Tag(ts) # "int" THEN Raise("TypeError")
          ELSE IF max_age # PyNone /\ (t - ts[2]) > max_age[2] THEN Ret(PyNone)
          ELSE Ret(DictGet(entry, "value"))

\* save_cache storing the value itself under the key, without the timestamp
save_cache_bare_value(f, key, value, t, io) ==
    IF io = "mkdir" THEN [file |-> f, out |-> Raise("OSError")]
    ELSE LET payload == IF f[1] = "json" THEN f[2] ELSE EmptyDict IN
      IF Tag(payload) # "dict" THEN [file |-> f, out |-> Raise("TypeError")]
      ELSE IF io = "open" THEN [file |-> f, out |-> Raise("OSError")]
      ELSE LET merged == DictSet(payload, key, value)
           IN IF Serializable(merged)
              THEN [file |-> Rewritten(f, JsonFile(JsonRoundTrip(merged))),
                    out |-> Ret(PyNone)]
              ELSE [file |-> Rewritten(f, Garbage), out |-> Raise("TypeError")]

\* save_cache that starts from an empty store whatever the file holds
save_cache_fresh_store(f, key, value, t, io) ==
    IF io = "mkdir" THEN [file |-> f, out |-> Raise("OSError")]
    ELSE IF io = "open" THEN [file |-> f, out |-> Raise("OSError")]
    ELSE LET entry == PyDict([ts |-> PyInt(t), value |-> value])
             merged == DictSet(EmptyDict, key, entry)
         IN IF Serializable(merged)
            THEN [file |-> Rewritten(f, JsonFile(JsonRoundTrip(merged))),
                  out |-> Ret(PyNone)]
            ELSE [file |-> Rewritten(f, Garbage), out |-> Raise("TypeError")]

\* save_cache(path, key, value) at time t. io names the file-system failure
\* met, if any: "mkdir" (os.makedirs raises), "open" (open for write raises).
\* A file that is absent, cannot be opened for reading or does not parse
\* gives the empty store of lines 46 and 52.
\* The result is the new file and the outcome of the call.
save_cache(f, key, value, t, io) ==
    IF io = "mkdir" THEN [file |-> f, out |-> Raise("OSError")]
    ELSE LET payload == IF f[1] = "json" THEN f[2] ELSE EmptyDict IN
      IF Tag(payload) # "dict" THEN [file |-> f, out |-> Raise("TypeError")]
      ELSE IF io = "open" THEN [file |-> f, out |-> Raise("OSError")]
      ELSE LET entry == PyDict([ts |-> PyInt(t), value |-> value])
               merged == DictSet(payload, key, entry)
           IN IF Serializable(merged)
              THEN [file |-> Rewritten(f, JsonFile(JsonRoundTrip(merged))),
                    out |-> Ret(PyNone)]
              ELSE [file |-> Rewritten(f, Garbage), out |-> Raise("TypeError")]

----------------------------------------------------------------------------
(* Record normalisation, run_research lines 285-308 *)

\* lines 297-303 with the nested toolkit slug taking precedence
make_record_nested_first(source, g) ==
    LET toolkit_info == PyOr(DictGet(source, "toolkit"), EmptyDict)
        nested == IF Tag(toolkit_info) = "dict"
                  THEN DictGet(toolkit_info, "slug") ELSE PyNone
    IN PyDict([toolkit |-> PyStr(g),
               id |-> PyOr(PyOr(DictGet(source, "id"), DictGet(source, "slug")),
                           DictGet(source, "tool_slug")),
               slug |-> PyOr(PyOr(nested, DictGet(source, "slug")),
                             DictGet(source, "tool_slug")),
               name |-> PyOr(PyOr(DictGet(source, "name"), DictGet(source, "display_name")),
                             DictGet(source, "id"))])

\* The record built from a source mapping discovered under toolkit g
make_record(source, g) ==
    LET toolkit_info == PyOr(DictGet(source, "toolkit"), EmptyDict)
        nested == IF Tag(toolkit_info) = "dict"
                  THEN DictGet(toolkit_info, "slug") ELSE PyNone
    IN PyDict([toolkit |-> PyStr(g),
               id |-> PyOr(PyOr(DictGet(source, "id"), DictGet(source, "slug")),
                           DictGet(source, "tool_slug")),
               slug |-> PyOr(PyOr(DictGet(source, "slug"), DictGet(source, "tool_slug")),
                             nested),
               name |-> PyOr(PyOr(DictGet(source, "name"), DictGet(source, "display_name")),
                             DictGet(source, "id"))])

\* line 305 with every record appended
record_kept_always(record) == TRUE

\* The test of line 305: the record is appended to the catalog
record_kept(record) ==
    Truthy(DictGet(record, "slug")) \/ Truthy(DictGet(record, "name"))

----------------------------------------------------------------------------
(* Discovery, run_research lines 208-325.  A raw item is a mapping          *)
(* <<"dict", f>>, an object with a dump method <<"model", f>> (model_dump)  *)
(* or <<"v1model", f>> (dict), or a plain object with attributes            *)
(* <<"attr", f>>.                                                           *)

Dumpable(e) == e[1] \in {"model", "v1model", "dict"}

\* model_dump() / dict() / the mapping itself
to_mapping(e) == IF e[1] = "dict" THEN e ELSE PyDict(e[2])

\* lines 239-245: the entries the versioned client's items give
v3_entries(items) ==
    LET usable == SelectSeq(items, Dumpable)
    IN [i \in 1..Len(usable) |-> to_mapping(usable[i])]

\* lines 285-308: the records appended to the catalog for the entries of g
group_records(es, g) ==
    LET usable == SelectSeq(es, Dumpable)
        recs == [i \in 1..Len(usable) |-> make_record(to_mapping(usable[i]), g)]
    IN SelectSeq(recs, record_kept)

\* the deduplication key without lower()
record_key_case_sensitive(r) ==
    PyOr(PyOr(PyOr(DictGet(r, "slug"), PyStr("")),
              PyOr(DictGet(r, "id"), PyStr(""))),
         PyOr(DictGet(r, "name"), PyStr("")))[2]

\* lines 311-315: the deduplication key of a record
record_key(r) ==
    Lower(PyOr(PyOr(PyOr(DictGet(r, "slug"), PyStr("")),
                    PyOr(DictGet(r, "id"), PyStr(""))),
               PyOr(DictGet(r, "name"), PyStr("")))[2])

RECURSIVE dedupe_from(_, _)
dedupe_from(records, seen) ==
    IF records = <<>> THEN <<>>
    ELSE LET r == Head(records)
             k == record_key(r)
         IN IF k # "" /\ k \notin seen
            THEN <<r>> \o dedupe_from(Tail(records), seen \cup {k})
            ELSE dedupe_from(Tail(records), seen)

\* lines 309-318: first record of each key, in order of first occurrence
dedupe(records) == dedupe_from(records, {})

\* every toolkit slug the model knows, in sorted() order
SortedGroups ==
    <<"alpha_vantage", "gmail", "googledocs", "googlesheets", "serpapi", "slack">>

RECURSIVE join_comma(_)
join_comma(q) ==
    IF q = <<>> THEN ""
    ELSE IF Len(q) = 1 THEN q[1]
    ELSE q[1] \o "," \o join_comma(Tail(q))

\* line 225 with the key taken from the first toolkit alone
cache_key_first_only(S) ==
    LET member(x) == x \in S
        sorted == SelectSeq(SortedGroups, member)
    IN IF sorted = <<>> THEN "" ELSE sorted[1]

\* line 225: ",".join(sorted(desired_toolkits))
cache_key(S) ==
    LET member(x) == x \in S
    IN join_comma(SelectSeq(SortedGroups, member))

\* line 227 with the cache always missed
cached_catalog_never(f, key, ttl, t) == Ret(PyList(<<>>))

\* line 227: load_cache(cache_path, cache_key, max_age_seconds=cache_ttl) or []
cached_catalog(f, key, ttl, t) ==
    LET r == load_cache(f, key, PyInt(ttl), t)
    IN IF r[1] = "raise" THEN r ELSE Ret(PyOr(r[2], PyList(<<>>)))

----------------------------------------------------------------------------
(* Bounds and input sets *)

MaxTime == 2
MaxAge == 2

Keys == {"k1", "k2"}
Groups == {"gmail", "slack"}

CacheValues ==
    {PyNone, PyInt(0), PyList(<<>>), PyTuple(<<PyInt(1), PyInt(2)>>),
     PyDict([n |-> PyStr("a")]), PyIntDict([x \in {"1"} |-> PyStr("a")]), PyObj}

MaxAges == {PyNone} \cup {PyInt(n) : n \in 0..MaxAge}

NoSave == <<"nosave">>

WellFormedEntry == PyDict([ts |-> PyInt(0), value |-> PyInt(1)])

\* What the cache file may hold when the program starts
InitFiles ==
    {Absent, Garbage, WriteOnly(JsonFile(PyDict([k1 |-> WellFormedEntry]))),
     JsonFile(PyList(<<>>)), JsonFile(PyInt(5)), JsonFile(EmptyDict)}
    \cup {JsonFile(PyDict([k1 |-> e])) :
            e \in {PyInt(5), PyInt(0), PyStr("x"), EmptyDict,
                   PyDict([value |-> PyInt(1)]),
                   PyDict([ts |-> PyNone, value |-> PyInt(1)]),
                   PyDict([ts |-> PyStr("x"), value |-> PyInt(1)]),
                   WellFormedEntry}}

FieldVals == {PyNone, PyStr(""), PyStr("A"), PyStr("a")}
ToolkitVals == {PyNone, PyStr("gmail")} \cup {PyDict([slug |-> v]) : v \in FieldVals}

\* Source mappings of raw items; a key holding None stands for an absent key too
Sources ==
    {PyDict([id |-> i, slug |-> s, tool_slug |-> t, name |-> n,
             display_name |-> d, toolkit |-> k]) :
        i \in FieldVals, s \in FieldVals, t \in FieldVals, n \in FieldVals,
        d \in FieldVals, k \in ToolkitVals}


\* Raw items the adapters may return
ItemSlugA == PyDict([slug |-> PyStr("A")])
ItemModelLower == <<"model", [id |-> PyStr("B"), slug |-> PyStr("a"), name |-> PyStr("B")]>>
ItemDictLower == PyDict([id |-> PyStr("B"), slug |-> PyStr("a"), name |-> PyStr("B")])
ItemAttr == <<"attr", [slug |-> PyStr("B")]>>
ItemNested == PyDict([toolkit |-> PyDict([slug |-> PyStr("b")])])
ItemNoName == PyDict([display_name |-> PyStr("")])
ItemEmptyId == PyDict([id |-> PyStr("")])
ItemObjId == PyDict([id |-> PyObj, slug |-> PyStr("c")])
ItemToolOne == PyDict([id |-> PyStr("t1"), toolkit |-> PyDict([slug |-> PyStr("b")])])
ItemToolTwo == PyDict([id |-> PyStr("t2"), toolkit |-> PyDict([slug |-> PyStr("b")])])

\* Item sequences an SDK call may return
SampleResults ==
    {<<>>, <<ItemModelLower, ItemSlugA>>, <<ItemAttr>>, <<ItemNested, ItemNoName>>}

\* Item sequences a JSON response may carry
HttpResults ==
    {<<>>, <<ItemSlugA>>, <<ItemDictLower, ItemSlugA>>, <<ItemEmptyId, ItemObjId>>,
     <<ItemToolOne, ItemToolTwo>>}

Prefixes(q) == {SubSeq(q, 1, k) : k \in 0..(Len(q) - 1)}

\* What a call of the versioned client's tools.list and the conversion of its
\* items may do: return all items, or raise after some were converted
V3Outcomes ==
    {[items |-> q, raised |-> FALSE] : q \in SampleResults}
    \cup {[items |-> q, raised |-> TRUE] :
            q \in {<<>>} \cup UNION {Prefixes(r) : r \in SampleResults}}

\* What a call of the legacy tools.list or tools.get may do
LegacyOutcomes ==
    {[items |-> q, raised |-> FALSE, exc |-> ""] : q \in SampleResults}
    \cup {[items |-> <<>>, raised |-> TRUE, exc |-> e] : e \in {"TypeError", "Exception"}}

\* What resp.json() of the HTTP fallback may be
HttpData ==
    {EmptyDict, PyDict([items |-> PyDict([total |-> PyInt(1)])])}
    \cup {PyDict([items |-> PyList(q)]) : q \in HttpResults}
    \cup {PyDict([items |-> PyList(<<>>), data |-> PyList(q)]) : q \in HttpResults}

HttpOutcomes ==
    {[data |-> d, raised |-> FALSE] : d \in HttpData}
    \cup {[data |-> EmptyDict, raised |-> TRUE]}

Configs == [v3 : BOOLEAN, list : BOOLEAN, get : BOOLEAN, http : BOOLEAN]

MaxRuns == 2
CacheTtl == 1

\* the latest time the clock of the workflow runs reaches
MaxClock == 2

\* The cache file a run may find: none, a damaged one, or the store an
\* earlier run wrote at time 0
DiscInitFiles ==
    {Absent, Garbage, JsonFile(PyList(<<>>)),
     save_cache(Absent, "gmail", PyList(<<make_record(ItemSlugA, "gmail")>>), 0, "ok").file}

\* The installation with the legacy tools.list alone: the behaviours that
\* start from it are explored over MaxRuns runs, the others over one run
ListOnly(c) == c = [v3 |-> FALSE, list |-> TRUE, get |-> FALSE, http |-> FALSE]

----------------------------------------------------------------------------
(* The cache operations as a state machine *)

NormIdle ==
    /\ nstage = "idle" /\ item = PyNone /\ grp = "" /\ rec = PyNone /\ rec2 = PyNone

CacheIdle ==
    /\ file = Absent /\ now = 0 /\ op = <<"init">> /\ ret = Ret(PyNone)
    /\ saved = [k \in Keys |-> NoSave]
    /\ given = [k \in Keys |-> NoSave]

KeyIdle ==
    /\ whitelistA = PyNone /\ whitelistB = PyNone /\ keyA = "" /\ keyB = ""
    /\ catalogA = PyList(<<>>)
    /\ kstage = "idle"

ConcIdle ==
    /\ writers = <<>> /\ flushOrder = <<>>

ExecIdle ==
    /\ inst = PyNone /\ actions = <<>> /\ idx = 0 /\ xpc = "off" /\ rest = <<>>
    /\ xcalls = <<>> /\ errors = <<>> /\ given_errors = PyNone /\ xlog = <<>>
    /\ outcome = PyNone
    /\ execution_results = <<>>

ListIdle ==
    /\ lcfg = PyNone /\ lpc = "off" /\ todo = <<>> /\ tools = PyNone
    /\ last_error = PyNone /\ lcalls = <<>> /\ printed = <<>>

RaceIdle == saver = [pc |-> "off"] /\ loader = [pc |-> "off"]

SlackIdle ==
    /\ wf = PyNone /\ research_text = "" /\ spc = "off" /\ slack_action = PyNone
    /\ executed = <<>>

AllAdapters == [v3 |-> TRUE, list |-> TRUE, get |-> TRUE, http |-> TRUE]

DiscIdle ==
    /\ cfg = AllAdapters /\ pc = "idle" /\ runs = 0 /\ runLimit = 0
    /\ desired = {} /\ pending = {}
    /\ cur = "" /\ entries = <<>> /\ calls = <<>> /\ groupRecords = <<>>
    /\ tool_catalog = <<>> /\ catalog = PyList(<<>>) /\ hit = FALSE /\ raisedIn = {}
    /\ fetched = <<>> /\ delayed = FALSE

CacheInit ==
    /\ file \in InitFiles
    /\ now = 0
    /\ op = <<"init">>
    /\ ret = Ret(PyNone)
    /\ saved = [k \in Keys |-> NoSave]
    /\ given = [k \in Keys |-> NoSave]
    /\ NormIdle
    /\ DiscIdle
    /\ KeyIdle
    /\ ConcIdle
    /\ ExecIdle
    /\ ListIdle
    /\ RaceIdle
    /\ SlackIdle

\* time passes
Tick ==
    /\ now < MaxTime
    /\ now' = now + 1
    /\ op' = <<"tick">>
    /\ ret' = Ret(PyNone)
    /\ UNCHANGED <<file, saved, given>>
    /\ UNCHANGED <<normVars, keyVars, concVars, execVars, listVars, raceVars, slackVars>>
    /\ UNCHANGED discVars

IsLoad == op[1] = "load"

\* the stored entry of key k is a mapping with a numeric timestamp
EntryWellFormed(k) ==
    /\ file[1] = "json"
    /\ Tag(file[2]) = "dict"
    /\ k \in DOMAIN file[2][2]
    /\ Tag(file[2][2][k]) = "dict"
    /\ Tag(DictGet(file[2][2][k], "ts")) = "int"

EntryTs(k) == DictGet(file[2][2][k], "ts")[2]
EntryValue(k) == DictGet(file[2][2][k], "value")

\* the operation performed last was a load of key k that found its
\* well-formed entry older than the max age given
ExpiredLoad(k) ==
    /\ IsLoad /\ op[2] = k /\ op[3] # PyNone
    /\ EntryWellFormed(k)
    /\ now - EntryTs(k) > op[3][2]

\* load_cache deleting the entry it finds expired
LoadEvicting ==
    \E k \in Keys, a \in MaxAges :
        /\ op' = <<"load", k, a, ExpiredLoad(k)>>
        /\ ret' = load_cache(file, k, a, now)
        /\ file' = IF EntryWellFormed(k) /\ a # PyNone /\ now - EntryTs(k) > a[2]
                   THEN JsonFile(PyDict([x \in DOMAIN file[2][2] \ {k} |-> file[2][2][x]]))
                   ELSE file
        /\ UNCHANGED <<now, saved, given>>
        /\ UNCHANGED <<normVars, keyVars, concVars, execVars, listVars, raceVars, slackVars>>
    /\ UNCHANGED discVars

\* a call load_cache(path, k, a); the operation records whether the load
\* before it found the same entry expired
Load ==
    \E k \in Keys, a \in MaxAges :
        /\ op' = <<"load", k, a, ExpiredLoad(k)>>
        /\ ret' = load_cache(file, k, a, now)
        /\ UNCHANGED <<file, now, saved, given>>
        /\ UNCHANGED <<normVars, keyVars, concVars, execVars, listVars, raceVars, slackVars>>
    /\ UNCHANGED discVars

\* a call save_cache(path, k, v). given records the value of every completed
\* save; saved forgets the values of the entries a save removes from the
\* file: all of them when the save raises after line 55 truncated the file,
\* those of the other keys when the save completes from the empty store of
\* line 52. A save that raises before line 55 leaves both as they were.
Save ==
    \E k \in Keys, v \in CacheValues, io \in {"ok", "mkdir", "open"} :
        /\ io = "mkdir" => file = Absent
        /\ LET r == save_cache(file, k, v, now, io) IN
            /\ file' = r.file
            /\ ret' = r.out
            /\ saved' = IF r.out[1] = "ret"
                        THEN IF file[1] = "json"
                             THEN [saved EXCEPT ![k] = v]
                             ELSE [x \in Keys |-> IF x = k THEN v ELSE NoSave]
                        ELSE IF r.file = file THEN saved
                        ELSE [x \in Keys |-> NoSave]
            /\ given' = IF r.out[1] = "ret" THEN [given EXCEPT ![k] = v] ELSE given
        /\ op' = <<"save", k, v, io>>
        /\ UNCHANGED now
        /\ UNCHANGED <<normVars, keyVars, concVars, execVars, listVars, raceVars, slackVars>>
    /\ UNCHANGED discVars

CacheNext == Tick \/ Load \/ Save

SpecCache == CacheInit /\ [][CacheNext]_vars

----------------------------------------------------------------------------
(* The cache key of two runs, lines 208-227.  The value of                 *)
(* COMPOSIO_TOOLKIT_WHITELIST is <<"none">> when unset, and otherwise      *)
(* <<"env", q>> with q the pieces that split(",") gives: <<"">> is the     *)
(* empty string.                                                           *)

MaxPieces == 3

Pieces == {"gmail", "slack", " slack", ""}

RECURSIVE SeqsUpTo(_, _)
SeqsUpTo(S, n) ==
    IF n = 0 THEN {<<>>}
    ELSE LET shorter == SeqsUpTo(S, n - 1)
         IN shorter \cup {Append(q, x) : q \in shorter, x \in S}

Whitelists == {PyNone} \cup {<<"env", q>> : q \in SeqsUpTo(Pieces, MaxPieces) \ {<<>>}}

\* str.strip() on the pieces of the model
Strip(x) ==
    CASE x = " slack" -> "slack"
      [] OTHER -> x

\* lines 213-220
DefaultToolkits ==
    {"googlesheets", "googledocs", "gmail", "slack", "serpapi", "alpha_vantage"}

\* lines 208-220: desired_toolkits
desired_toolkits(w) ==
    IF w # PyNone /\ w[2] # <<"">>
    THEN {Strip(w[2][i]) : i \in 1..Len(w[2])} \ {""}
    ELSE DefaultToolkits

\* what the SDK lists for a toolkit: one tool under gmail, one under slack
ItemSlugB == PyDict([slug |-> PyStr("B")])

KeyListing(slug) ==
    CASE slug = "gmail" -> <<ItemSlugA>>
      [] slug = "slack" -> <<ItemSlugB>>
      [] OTHER -> <<>>

\* the orders in which `for slug in desired_toolkits` (line 231) may visit a
\* set: the iteration order of a set of strings is not fixed
RECURSIVE Orders(_)
Orders(S) ==
    IF S = {} THEN {<<>>}
    ELSE UNION {{<<x>> \o q : q \in Orders(S \ {x})} : x \in S}

RECURSIVE records_in_order(_)
\* lines 231-308: the records appended for the toolkits visited in an order
records_in_order(order) ==
    IF order = <<>> THEN <<>>
    ELSE group_records(KeyListing(Head(order)), Head(order))
            \o records_in_order(Tail(order))

\* lines 231-318: the catalog a run discovers when it visits its toolkits
\* in the given order
discovered_catalog(order) == PyList(dedupe(records_in_order(order)))

KeyInit ==
    /\ whitelistA \in Whitelists
    /\ whitelistB \in Whitelists
    /\ keyA = "" /\ keyB = ""
    /\ catalogA = PyList(<<>>)
    /\ kstage = "raw"
    /\ CacheIdle
    /\ NormIdle
    /\ DiscIdle
    /\ ConcIdle
    /\ ExecIdle
    /\ ListIdle
    /\ RaceIdle
    /\ SlackIdle

\* line 225 in both runs
BuildKeys ==
    /\ kstage = "raw"
    /\ keyA' = cache_key(desired_toolkits(whitelistA))
    /\ keyB' = cache_key(desired_toolkits(whitelistB))
    /\ kstage' = "keyed"
    /\ UNCHANGED <<whitelistA, whitelistB, catalogA>>
    /\ UNCHANGED cacheVars
    /\ UNCHANGED <<normVars, concVars, execVars, listVars, raceVars, slackVars>>
    /\ UNCHANGED discVars

\* lines 228-320 in the first run, which misses the cache: the toolkits of
\* its whitelist are listed, the records deduplicated and the catalog saved
StoreUnderKeyA ==
    /\ kstage = "keyed"
    /\ \E order \in Orders(desired_toolkits(whitelistA)) :
          LET tool_catalog_A == discovered_catalog(order)
              r == save_cache(file, keyA, tool_catalog_A, now, "ok")
          IN /\ file' = r.file /\ ret' = r.out
             /\ op' = <<"save", keyA, tool_catalog_A, "ok">>
             /\ catalogA' = tool_catalog_A
    /\ kstage' = "stored"
    /\ UNCHANGED <<whitelistA, whitelistB, keyA, keyB, now, saved, given>>
    /\ UNCHANGED <<normVars, concVars, execVars, listVars, raceVars, slackVars>>
    /\ UNCHANGED discVars

\* line 227 in the second run
LookupUnderKeyB ==
    /\ kstage = "stored"
    /\ ret' = cached_catalog(file, keyB, CacheTtl, now)
    /\ op' = <<"load", keyB, PyInt(CacheTtl), FALSE>>
    /\ kstage' = "looked"
    /\ UNCHANGED <<whitelistA, whitelistB, keyA, keyB, catalogA, file, now, saved, given>>
    /\ UNCHANGED <<normVars, concVars, execVars, listVars, raceVars, slackVars>>
    /\ UNCHANGED discVars

KeyNext == BuildKeys \/ StoreUnderKeyA \/ LookupUnderKeyB

SpecKey == KeyInit /\ [][KeyNext]_vars

----------------------------------------------------------------------------
(* The cache operations on a file that does not exist at the start *)

FreshInit == CacheInit /\ file = Absent

SpecFresh == FreshInit /\ [][CacheNext]_vars

----------------------------------------------------------------------------
(* Two processes that each call save_cache once on the same file.  The     *)
(* call is taken in its three file operations: read and merge (lines       *)
(* 45-54), open for write, which truncates (line 55), and json.dump with   *)
(* the close that flushes it (line 56).                                    *)

Procs == {1, 2}

ConcValues == {PyInt(1), PyList(<<>>)}

ConcInitFiles == {Absent, Garbage, JsonFile(PyDict([k1 |-> WellFormedEntry]))}

\* A process before its call: the key and value it is to save
Writer(k, v) ==
    [pc |-> "start", key |-> k, value |-> v, seen |-> PyNone, payload |-> PyNone,
     opensSeen |-> 0, overwrote |-> FALSE]

ConcInit ==
    /\ file \in ConcInitFiles
    /\ now = 0 /\ op = <<"init">> /\ ret = Ret(PyNone)
    /\ saved = [k \in Keys |-> NoSave]
    /\ given = [k \in Keys |-> NoSave]
    /\ writers \in [Procs -> {Writer(k, v) : k \in Keys, v \in ConcValues}]
    /\ flushOrder = <<>>
    /\ NormIdle
    /\ DiscIdle
    /\ KeyIdle
    /\ ExecIdle
    /\ ListIdle
    /\ RaceIdle
    /\ SlackIdle

\* lines 45-54: read the existing payload (an unreadable or unparseable
\* file gives {}) and merge the entry. seen keeps what was read; opensSeen
\* counts the opens for write made before the read
ConcRead(p) ==
    /\ writers[p].pc = "start"
    /\ LET read == IF file[1] = "json" THEN file[2] ELSE EmptyDict
           entry == PyDict([ts |-> PyInt(now), value |-> writers[p].value])
       IN writers' = [writers EXCEPT
                        ![p].pc = "merged",
                        ![p].seen = read,
                        ![p].payload = DictSet(read, writers[p].key, entry),
                        ![p].opensSeen =
                            Cardinality({q \in Procs :
                                           writers[q].pc \in {"opened", "done"}})]
    /\ UNCHANGED <<file, now, op, ret, saved, given, flushOrder>>
    /\ UNCHANGED <<normVars, keyVars, execVars, listVars, raceVars, slackVars>>
    /\ UNCHANGED discVars

\* line 55: open(path, "w") truncates the file
ConcOpen(p) ==
    /\ writers[p].pc = "merged"
    /\ file' = Empty
    /\ writers' = [writers EXCEPT ![p].pc = "opened"]
    /\ UNCHANGED <<now, op, ret, saved, given, flushOrder>>
    /\ UNCHANGED <<normVars, keyVars, execVars, listVars, raceVars, slackVars>>
    /\ UNCHANGED discVars

\* line 56 with the write merging into what the file holds at that time
ConcFlushMerging(p) ==
    /\ writers[p].pc = "opened"
    /\ LET read == IF file[1] = "json" THEN file[2] ELSE EmptyDict
       IN file' = JsonFile(DictSet(read, writers[p].key,
                                   writers[p].payload[2][writers[p].key]))
    /\ writers' = [writers EXCEPT ![p].pc = "done", ![p].overwrote = file # Empty]
    /\ flushOrder' = Append(flushOrder, p)
    /\ UNCHANGED <<now, op, ret, saved, given>>
    /\ UNCHANGED <<normVars, keyVars, execVars, listVars, raceVars, slackVars>>
    /\ UNCHANGED discVars

\* every entry of store a is an entry of store b: the text of a is then no
\* longer than the text of b
SubPayload(a, b) ==
    /\ DOMAIN a[2] \subseteq DOMAIN b[2]
    /\ \A k \in DOMAIN a[2] : a[2][k] = b[2][k]

\* line 56: json.dump and the close write the payload from offset 0. On a
\* file still empty the file becomes the payload. On a file another process
\* wrote since this one's open, the bytes overlay the other's: the payload
\* alone when it is at least as long, the payload followed by the tail of
\* the other's text (which does not parse) when it is shorter. Which of two
\* payloads is longer depends on the digits of their timestamps, unless one
\* holds every entry of the other.
ConcFlush(p) ==
    /\ writers[p].pc = "opened"
    /\ LET mine == JsonRoundTrip(writers[p].payload) IN
        \/ /\ file[1] = "json" => ~(SubPayload(mine, file[2]) /\ mine # file[2])
           /\ file' = JsonFile(mine)
        \/ /\ file[1] = "json" /\ ~SubPayload(file[2], mine)
           /\ file' = Garbage
    /\ writers' = [writers EXCEPT ![p].pc = "done", ![p].overwrote = file # Empty]
    /\ flushOrder' = Append(flushOrder, p)
    /\ UNCHANGED <<now, op, ret, saved, given>>
    /\ UNCHANGED <<normVars, keyVars, execVars, listVars, raceVars, slackVars>>
    /\ UNCHANGED discVars

ConcNext ==
    \/ Tick
    \/ \E p \in Procs : ConcRead(p)
    \/ \E p \in Procs : ConcOpen(p)
    \/ \E p \in Procs : ConcFlush(p)

SpecConc == ConcInit /\ [][ConcNext]_vars

----------------------------------------------------------------------------
(* The normaliser applied to every source mapping, then to its own output *)

NormInit ==
    /\ nstage = "raw"
    /\ item \in Sources
    /\ grp \in Groups
    /\ rec = PyNone
    /\ rec2 = PyNone
    /\ CacheIdle
    /\ DiscIdle
    /\ KeyIdle
    /\ ConcIdle
    /\ ExecIdle
    /\ ListIdle
    /\ RaceIdle
    /\ SlackIdle

\* lines 297-303 on the raw item
Normalize ==
    /\ nstage = "raw"
    /\ rec' = make_record(item, grp)
    /\ nstage' = "normalized"
    /\ UNCHANGED <<item, grp, rec2>>
    /\ UNCHANGED cacheVars
    /\ UNCHANGED <<discVars, keyVars, concVars, execVars, listVars, raceVars, slackVars>>

\* lines 297-303 on a kept record, taken as a mapping under the same toolkit
Renormalize ==
    /\ nstage = "normalized"
    /\ record_kept(rec)
    /\ rec2' = make_record(rec, grp)
    /\ nstage' = "renormalized"
    /\ UNCHANGED <<item, grp, rec>>
    /\ UNCHANGED cacheVars
    /\ UNCHANGED <<discVars, keyVars, concVars, execVars, listVars, raceVars, slackVars>>

NormNext == Normalize \/ Renormalize

SpecNorm == NormInit /\ [][NormNext]_vars


----------------------------------------------------------------------------
(* Discovery as a state machine: one action per step of run_research *)

\* The record of one adapter invocation: the adapter, whether it raised, the
\* raw items it returned (those seen before a raise), and the number of
\* entries it left in the list "entries"
Call(a, o, its, n) == [adapter |-> a, raised |-> o.raised, items |-> its, taken |-> n]

\* lines 249 and 269: "if not entries"
needs_fallback(es) == es = <<>>

\* line 279: data.get("items") or data.get("data") or []
http_payload(data) ==
    PyOr(PyOr(DictGet(data, "items"), DictGet(data, "data")), PyList(<<>>))

DiscInit ==
    /\ cfg \in Configs
    /\ runLimit = IF ListOnly(cfg) THEN MaxRuns ELSE 1
    /\ pc = "idle" /\ runs = 0 /\ desired = {} /\ pending = {}
    /\ cur = "" /\ entries = <<>> /\ calls = <<>> /\ groupRecords = <<>>
    /\ tool_catalog = <<>> /\ catalog = PyList(<<>>) /\ hit = FALSE /\ raisedIn = {}
    /\ fetched = <<>> /\ delayed = FALSE
    /\ file \in DiscInitFiles
    /\ now = 0 /\ op = <<"init">> /\ ret = Ret(PyNone)
    /\ saved = [k \in Keys |-> NoSave]
    /\ given = [k \in Keys |-> NoSave]
    /\ NormIdle
    /\ KeyIdle
    /\ ConcIdle
    /\ ExecIdle
    /\ ListIdle
    /\ RaceIdle
    /\ SlackIdle

\* time passes: before the first run, between two runs and, inside a run,
\* between any two steps (time.time() is read at lines 37 and 54 of
\* cache_utils.py, called from lines 227 and 320)
Wait ==
    /\ now < MaxClock
    /\ now' = now + 1
    /\ delayed' = IF pc \in {"idle", "done", "crashed"} THEN delayed ELSE TRUE
    /\ UNCHANGED <<cfg, pc, runs, runLimit, desired, pending, cur, entries, calls,
                   groupRecords, tool_catalog, catalog, hit, raisedIn, fetched>>
    /\ UNCHANGED <<file, op, ret, saved, given>>
    /\ UNCHANGED <<normVars, keyVars, concVars, execVars, listVars, raceVars, slackVars>>

\* lines 208-230 with the catalog taken from the cache written back, which
\* gives its entry a new timestamp
StartRunRefreshing ==
    /\ pc \in {"idle", "done", "crashed"}
    /\ runs < runLimit
    /\ \E d \in SUBSET Groups :
        LET r == cached_catalog(file, cache_key(d), CacheTtl, now) IN
        /\ desired' = d
        /\ runs' = runs + 1
        /\ cur' = "" /\ entries' = <<>> /\ calls' = <<>> /\ groupRecords' = <<>>
        /\ tool_catalog' = <<>> /\ raisedIn' = {} /\ fetched' = <<>>
        /\ delayed' = IF r[1] = "ret" /\ ~Truthy(r[2]) THEN FALSE ELSE delayed
        /\ IF r[1] = "raise"
           THEN /\ pc' = "crashed" /\ hit' = FALSE /\ catalog' = PyList(<<>>)
                /\ pending' = {} /\ file' = file
           ELSE IF Truthy(r[2])
           THEN /\ pc' = "done" /\ hit' = TRUE /\ catalog' = r[2] /\ pending' = {}
                /\ file' = save_cache(file, cache_key(d), r[2], now, "ok").file
           ELSE /\ pc' = "fetch" /\ hit' = FALSE /\ catalog' = PyList(<<>>)
                /\ pending' = d /\ file' = file
    /\ UNCHANGED <<cfg, runLimit>>
    /\ UNCHANGED <<now, op, ret, saved, given>>
    /\ UNCHANGED <<normVars, keyVars, concVars, execVars, listVars, raceVars, slackVars>>

\* lines 208-230: a run starts, builds its cache key and consults the cache
StartRun ==
    /\ pc \in {"idle", "done", "crashed"}
    /\ runs < runLimit
    /\ \E d \in SUBSET Groups :
        LET r == cached_catalog(file, cache_key(d), CacheTtl, now) IN
        /\ desired' = d
        /\ runs' = runs + 1
        /\ cur' = "" /\ entries' = <<>> /\ calls' = <<>> /\ groupRecords' = <<>>
        /\ tool_catalog' = <<>> /\ raisedIn' = {} /\ fetched' = <<>>
        /\ delayed' = IF r[1] = "ret" /\ ~Truthy(r[2]) THEN FALSE ELSE delayed
        /\ IF r[1] = "raise"
           THEN pc' = "crashed" /\ hit' = FALSE /\ catalog' = PyList(<<>>) /\ pending' = {}
           ELSE IF Truthy(r[2])
           THEN pc' = "done" /\ hit' = TRUE /\ catalog' = r[2] /\ pending' = {}
           ELSE pc' = "fetch" /\ hit' = FALSE /\ catalog' = PyList(<<>>) /\ pending' = d
    /\ UNCHANGED <<cfg, runLimit>>
    /\ UNCHANGED cacheVars
    /\ UNCHANGED <<normVars, keyVars, concVars, execVars, listVars, raceVars, slackVars>>

\* line 231: the for loop takes the next toolkit of the set
NextGroup ==
    /\ pc = "fetch"
    /\ pending # {}
    /\ \E g \in pending : cur' = g /\ fetched' = Append(fetched, g)
    /\ entries' = <<>> /\ calls' = <<>> /\ groupRecords' = <<>>
    /\ pc' = "v3"
    /\ UNCHANGED <<delayed, cfg, runs, runLimit, desired, pending, tool_catalog, catalog, hit, raisedIn>>
    /\ UNCHANGED cacheVars
    /\ UNCHANGED <<normVars, keyVars, concVars, execVars, listVars, raceVars, slackVars>>

\* lines 235-247: the versioned client
V3Step ==
    /\ pc = "v3"
    /\ IF cfg.v3
       THEN \E o \in V3Outcomes :
              /\ entries' = v3_entries(o.items)
              /\ calls' = Append(calls, Call("v3", o, o.items, Len(v3_entries(o.items))))
              /\ raisedIn' = IF o.raised THEN raisedIn \cup {cur} ELSE raisedIn
       ELSE UNCHANGED <<entries, calls, raisedIn>>
    /\ pc' = "list"
    /\ UNCHANGED <<delayed, cfg, runs, runLimit, desired, pending, cur, groupRecords, tool_catalog, catalog, hit, fetched>>
    /\ UNCHANGED cacheVars
    /\ UNCHANGED <<normVars, keyVars, concVars, execVars, listVars, raceVars, slackVars>>

\* lines 249-267, one turn of the loop over ("list", "get")
LegacyStep(m, after) ==
    /\ pc = m
    /\ IF needs_fallback(entries) /\ cfg[m]
       THEN \E o \in LegacyOutcomes :
              /\ calls' = Append(calls, Call(m, o, o.items, Len(o.items)))
              /\ raisedIn' = IF o.raised THEN raisedIn \cup {cur} ELSE raisedIn
              /\ IF ~o.raised /\ o.items # <<>>
                 THEN entries' = o.items /\ pc' = "http"
                 ELSE entries' = entries /\ pc' = after
       ELSE pc' = after /\ UNCHANGED <<entries, calls, raisedIn>>
    /\ UNCHANGED <<delayed, cfg, runs, runLimit, desired, pending, cur, groupRecords, tool_catalog, catalog, hit, fetched>>
    /\ UNCHANGED cacheVars
    /\ UNCHANGED <<normVars, keyVars, concVars, execVars, listVars, raceVars, slackVars>>

\* the "list" turn of the loop, repeated when it gave nothing
ListStepRetry == LegacyStep("list", "list")

ListStep == LegacyStep("list", "get")

GetStep == LegacyStep("get", "http")

\* lines 269-283: the raw HTTP GET
HttpStep ==
    /\ pc = "http"
    /\ IF needs_fallback(entries) /\ cfg.http
       THEN \E o \in HttpOutcomes :
              LET payload == http_payload(o.data)
                  got == IF ~o.raised /\ Tag(payload) = "list" THEN payload[2] ELSE <<>>
              IN /\ entries' = entries \o got
                 /\ calls' = Append(calls, Call("http", o, got, Len(got)))
                 /\ raisedIn' = IF o.raised THEN raisedIn \cup {cur} ELSE raisedIn
       ELSE UNCHANGED <<entries, calls, raisedIn>>
    /\ pc' = "norm"
    /\ UNCHANGED <<delayed, cfg, runs, runLimit, desired, pending, cur, groupRecords, tool_catalog, catalog, hit, fetched>>
    /\ UNCHANGED cacheVars
    /\ UNCHANGED <<normVars, keyVars, concVars, execVars, listVars, raceVars, slackVars>>

\* lines 285-308: the entries of the toolkit become records
NormStep ==
    /\ pc = "norm"
    /\ groupRecords' = group_records(entries, cur)
    /\ tool_catalog' = tool_catalog \o group_records(entries, cur)
    /\ pending' = pending \ {cur}
    /\ pc' = "fetch"
    /\ UNCHANGED <<delayed, cfg, runs, runLimit, desired, cur, entries, calls, catalog, hit, raisedIn,
                   fetched>>
    /\ UNCHANGED cacheVars
    /\ UNCHANGED <<normVars, keyVars, concVars, execVars, listVars, raceVars, slackVars>>

\* lines 309-325 with the catalog written to the cache before it is
\* deduplicated
FinishStoringRaw ==
    /\ pc = "fetch"
    /\ pending = {}
    /\ \E io \in {"ok", "mkdir", "open"} :
        /\ io = "mkdir" => file = Absent
        /\ LET r == save_cache(file, cache_key(desired), PyList(tool_catalog), now, io)
           IN /\ file' = r.file
              /\ ret' = r.out
              /\ op' = <<"save", cache_key(desired), PyList(tool_catalog), io>>
    /\ catalog' = PyList(dedupe(tool_catalog))
    /\ pc' = "done"
    /\ cur' = "" /\ entries' = <<>> /\ calls' = <<>> /\ groupRecords' = <<>>
    /\ UNCHANGED <<delayed, cfg, runs, runLimit, desired, pending, tool_catalog, hit, raisedIn, fetched>>
    /\ UNCHANGED <<now, saved, given>>
    /\ UNCHANGED <<normVars, keyVars, concVars, execVars, listVars, raceVars, slackVars>>

\* lines 309-325 with a failure of the cache write raised to the caller
FinishRaising ==
    /\ pc = "fetch"
    /\ pending = {}
    /\ \E io \in {"ok", "mkdir", "open"} :
        /\ io = "mkdir" => file = Absent
        /\ LET r == save_cache(file, cache_key(desired), PyList(dedupe(tool_catalog)),
                               now, io)
           IN /\ file' = r.file
              /\ ret' = r.out
              /\ op' = <<"save", cache_key(desired), PyList(dedupe(tool_catalog)), io>>
              /\ IF r.out[1] = "raise"
                 THEN pc' = "crashed" /\ catalog' = catalog
                 ELSE pc' = "done" /\ catalog' = PyList(dedupe(tool_catalog))
    /\ cur' = "" /\ entries' = <<>> /\ calls' = <<>> /\ groupRecords' = <<>>
    /\ UNCHANGED <<delayed, cfg, runs, runLimit, desired, pending, tool_catalog, hit, raisedIn, fetched>>
    /\ UNCHANGED <<now, saved, given>>
    /\ UNCHANGED <<normVars, keyVars, concVars, execVars, listVars, raceVars, slackVars>>

\* lines 309-325: deduplicate, write the cache (a failure is logged, not
\* raised), keep the catalog. op and ret record the save_cache call.
Finish ==
    /\ pc = "fetch"
    /\ pending = {}
    /\ \E io \in {"ok", "mkdir", "open"} :
        /\ io = "mkdir" => file = Absent
        /\ LET r == save_cache(file, cache_key(desired), PyList(dedupe(tool_catalog)),
                               now, io)
           IN /\ file' = r.file
              /\ ret' = r.out
              /\ op' = <<"save", cache_key(desired), PyList(dedupe(tool_catalog)), io>>
    /\ catalog' = PyList(dedupe(tool_catalog))
    /\ pc' = "done"
    /\ cur' = "" /\ entries' = <<>> /\ calls' = <<>> /\ groupRecords' = <<>>
    /\ UNCHANGED <<delayed, cfg, runs, runLimit, desired, pending, tool_catalog, hit, raisedIn, fetched>>
    /\ UNCHANGED <<now, saved, given>>
    /\ UNCHANGED <<normVars, keyVars, concVars, execVars, listVars, raceVars, slackVars>>

Next ==
    \/ Wait \/ StartRun \/ NextGroup \/ V3Step \/ ListStep \/ GetStep \/ HttpStep
    \/ NormStep \/ Finish

Spec == DiscInit /\ [][Next]_vars

----------------------------------------------------------------------------
(* One process inside load_cache while another is inside save_cache on the *)
(* same file.  The save is taken in its file operations: read and merge    *)
(* (lines 45-54), open for write, which truncates (line 55), a flush of    *)
(* part of the text json.dump produces, and the close that leaves the whole *)
(* text (line 56).  The load is taken in its two: os.path.exists (line 21) *)
(* and the open, read and parse of lines 23-25, with the rest of the        *)
(* function.                                                                *)

RaceValues == {PyInt(2), PyList(<<>>), PyList(<<PyDict([slug |-> PyStr("A")])>>)}

RaceInitFiles ==
    {Absent, Garbage, JsonFile(PyDict([k1 |-> WellFormedEntry])),
     JsonFile(PyDict([k1 |-> WellFormedEntry,
                      k2 |-> PyDict([ts |-> PyInt(0), value |-> PyList(<<PyInt(7)>>)])]))}

\* the value a store file holds under key k, None when it holds none
StoredValue(f, k) ==
    IF f[1] = "json" /\ k \in DOMAIN f[2][2] THEN DictGet(f[2][2][k], "value") ELSE PyNone

RaceInit ==
    /\ file \in RaceInitFiles
    /\ now = 0 /\ op = <<"init">> /\ ret = Ret(PyNone)
    /\ saved = [k \in Keys |-> NoSave]
    /\ given = [k \in Keys |-> NoSave]
    /\ saver \in {[pc |-> "start", key |-> k, value |-> v, payload |-> PyNone,
                   before |-> StoredValue(file, k)] : k \in Keys, v \in RaceValues}
    /\ loader \in {[pc |-> "start", key |-> k, max_age |-> a, saw |-> Absent,
                    out |-> <<"pending">>] : k \in Keys, a \in MaxAges}
    /\ NormIdle
    /\ DiscIdle
    /\ KeyIdle
    /\ ConcIdle
    /\ ExecIdle
    /\ ListIdle
    /\ SlackIdle

RaceFrame ==
    UNCHANGED <<now, op, ret, saved, given, normVars, discVars, keyVars, concVars, execVars,
                listVars, slackVars>>

\* lines 45-54 of save_cache: read what the file holds and merge the entry
SaverRead ==
    /\ saver.pc = "start"
    /\ LET read == IF file[1] = "json" THEN file[2] ELSE EmptyDict
           entry == PyDict([ts |-> PyInt(now), value |-> saver.value])
       IN saver' = [saver EXCEPT !.pc = "merged",
                                 !.payload = DictSet(read, saver.key, entry)]
    /\ UNCHANGED <<file, loader>>
    /\ RaceFrame

\* line 55: open(path, "w") creates or truncates the file
SaverOpen ==
    /\ saver.pc = "merged"
    /\ file' = Empty
    /\ saver' = [saver EXCEPT !.pc = "opened"]
    /\ UNCHANGED loader
    /\ RaceFrame

\* line 56: the buffer of json.dump is flushed before the text is
\* complete, so the file holds a proper prefix of it
SaverFlushPart ==
    /\ saver.pc = "opened"
    /\ file' = Garbage
    /\ saver' = [saver EXCEPT !.pc = "writing"]
    /\ UNCHANGED loader
    /\ RaceFrame

\* line 56: the close leaves the whole text
SaverClose ==
    /\ saver.pc \in {"opened", "writing"}
    /\ file' = JsonFile(JsonRoundTrip(saver.payload))
    /\ saver' = [saver EXCEPT !.pc = "done"]
    /\ UNCHANGED loader
    /\ RaceFrame

\* lines 21-22 of load_cache: os.path.exists
LoaderExists ==
    /\ loader.pc = "start"
    /\ loader' = IF file = Absent
                 THEN [loader EXCEPT !.pc = "done", !.out = Ret(PyNone)]
                 ELSE [loader EXCEPT !.pc = "found"]
    /\ UNCHANGED <<file, saver>>
    /\ RaceFrame

\* lines 23-40 of load_cache: open, read, parse and look the key up
LoaderRead ==
    /\ loader.pc = "found"
    /\ loader' = [loader EXCEPT !.pc = "done", !.saw = file,
                                !.out = load_cache(file, loader.key, loader.max_age, now)]
    /\ UNCHANGED <<file, saver>>
    /\ RaceFrame

RaceNext ==
    \/ Tick
    \/ SaverRead \/ SaverOpen \/ SaverFlushPart \/ SaverClose
    \/ LoaderExists \/ LoaderRead

SpecRace == RaceInit /\ [][RaceNext]_vars

----------------------------------------------------------------------------
(* Action execution: _execute_action of the workflow                       *)
(* (hedge_fund_research.py lines 442-499) inside the loop of run_research  *)
(* (lines 415-419), and _execute_action of scripts/try_sheets_execute.py   *)
(* (lines 87-118).  A call made to a client is recorded with the strategy, *)
(* the action it names, the generic mapping it forwards, the arguments     *)
(* passed beside that mapping, and what the call did.                      *)

PyBool(b) == <<"bool", b>>

\* what d.pop(k, default) leaves of the dict d
DictPop(d, k) == PyDict([x \in (DOMAIN d[2]) \ {k} |-> d[2][x]])

\* what d.pop(k, default) returns
DictPopValue(d, k, default) == IF k \in DOMAIN d[2] THEN d[2][k] ELSE default

ErrUnavailable == PyDict([error |-> PyStr("composio_client_unavailable")])
ErrNotFound == PyDict([error |-> PyStr("legacy_action_not_found")])

\* lines 448-458: the arguments of composio_v3.tools.execute
v3_call(action_slug, params) ==
    LET arguments == DictPop(DictPop(DictPop(params, "connected_account_id"),
                                     "user_id"), "allow_tracing")
    IN [tool |-> PyStr(action_slug),
        params |-> PyOr(arguments, PyNone),
        oob |-> PyDict([connected_account_id |->
                            DictPopValue(params, "connected_account_id", PyNone),
                        user_id |-> DictPopValue(params, "user_id", PyNone),
                        allow_tracing |-> DictPopValue(params, "allow_tracing", PyNone)]),
        body |-> PyNone]

\* lines 459-463: the payload returned for the versioned client's response
v3_payload(response) ==
    LET payload == IF Tag(response) = "model" THEN PyDict(response[2]) ELSE response
    IN IF Tag(payload) = "dict" THEN payload ELSE PyDict([data |-> payload])

\* line 468: no legacy client to execute with
legacy_unavailable(i) == i.composio = "none" \/ i.composio # "actions"

\* line 473 with every action id taken for a member
action_enum_unchecked(i, action_slug) == <<"enum", action_slug>>

\* line 473: getattr(Action, action_slug, None) if Action is not None else None
action_enum(i, action_slug) ==
    IF i.members # PyNone /\ action_slug \in i.members[2]
    THEN <<"enum", action_slug>> ELSE PyNone

\* lines 478-486: the arguments of composio.actions.execute
legacy_call(enum, params) ==
    LET arguments == DictPop(DictPop(params, "connected_account_id"), "allow_tracing")
    IN [tool |-> enum,
        params |-> arguments,
        oob |-> PyDict([connected_account |->
                            DictPopValue(params, "connected_account_id", PyNone),
                        allow_tracing |->
                            DictPopValue(params, "allow_tracing", PyBool(FALSE))]),
        body |-> PyNone]

\* getattr(result, name, None) for a plain object
GetAttr(o, name) == IF name \in DOMAIN o[2] THEN o[2][name] ELSE PyNone

\* repr(result) of a plain object
Repr(o) == PyStr("<object>")

\* lines 487-496: the payload returned for the legacy client's result
legacy_payload(result) ==
    IF Tag(result) = "dict" THEN result
    ELSE PyDict([status |-> GetAttr(result, "status"), data |-> GetAttr(result, "data"),
                 raw |-> Repr(result)])

\* str(exc)
ExcStr(e) == PyStr(e.msg)

\* lines 96 and 106 of the script: params are handed over as they came
script_call(action, params) ==
    [tool |-> PyStr(action), params |-> params, oob |-> EmptyDict, body |-> PyNone]

\* lines 113-115 of the script: the envelope posted to /v3/actions
http_call(action, params) ==
    [tool |-> PyStr(action), params |-> params, oob |-> EmptyDict,
     body |-> PyDict([action |-> PyStr(action), params |-> params])]

\* line 111 of the script with a handle taken for granted
http_handle_assumed(i) == TRUE

\* line 111 of the script: client.http or client._http_client
http_handle(i) == i.http

\* lines 100 and 110 of the script: the text appended to errors
script_error(stage, name, e) ==
    PyStr(IF stage = "actions"
          THEN "actions." \o name \o "(action=..., params=...): " \o e.msg
          ELSE "client." \o name \o "(<action>, <params>): " \o e.msg)

\* line 118 of the script
script_failure(errs) ==
    PyDict([error |-> PyStr("Unable to execute action via composio client"),
            details |-> PyList(errs)])

\* lines 91 and 101 of the script
MethodNames == <<"execute_action", "execute", "run", "__call__">>

(* Inputs of the execution machine *)

MaxActions == 2

ExcTypeError == [exc |-> "TypeError", msg |-> "unexpected keyword argument"]
ExcRuntime == [exc |-> "RuntimeError", msg |-> "connection refused"]
Exceptions == {ExcTypeError, ExcRuntime}

OkPayload == PyDict([data |-> PyStr("ok")])
ErrorPayload == PyDict([error |-> PyStr("quota exceeded")])
ModelResponse == <<"model", [successful |-> PyBool(TRUE)]>>
ResultObject == <<"attr", [status |-> PyStr("done"), data |-> PyStr("ok")]>>

V3Results == {OkPayload, ErrorPayload, ModelResponse, PyStr("ok")}
LegacyResults == {OkPayload, ErrorPayload, ResultObject}
ScriptResults == {OkPayload, ErrorPayload}

CallOutcomes(results) == {Ret(r) : r \in results} \cup {Raise(e) : e \in Exceptions}

ActionIds == {"GMAIL_SEND_EMAIL", "UNKNOWN_ACTION"}

ParamSets ==
    {EmptyDict,
     PyDict([connected_account_id |-> PyStr("ca_1"), foo |-> PyStr("bar")]),
     PyDict([connected_account_id |-> PyStr("ca_1"), user_id |-> PyStr("u_1"),
             allow_tracing |-> PyBool(TRUE), channel |-> PyStr("C1")])}

Requests == {[action |-> a, params |-> p] : a \in ActionIds, p \in ParamSets}

\* the legacy enum: not importable, or a class with its members
EnumClasses == {PyNone, <<"enum", {"GMAIL_SEND_EMAIL", "SLACK_POST_MESSAGE"}>>}

\* the workflow after __init__: composio_v3 set or None, composio with or
\* without the attribute "actions"
WorkflowInsts ==
    [disp : {"workflow"}, v3 : BOOLEAN, composio : {"actions", "no_actions"},
     members : EnumClasses, api : {PyNone}, methods : {{}}, http : {FALSE}]

MethodSets == {{}, {"execute"}, {"run", "__call__"}}

\* the client given to the script: its attribute "actions" (None or an
\* object with some callable methods), its own callable methods, its handle
ScriptInsts ==
    [disp : {"script"}, v3 : {FALSE}, composio : {"none"}, members : {PyNone},
     api : {PyNone} \cup {<<"api", ms>> : ms \in MethodSets}, methods : MethodSets,
     http : BOOLEAN]

\* the argument "errors" of the script's dispatcher: left out, or the
\* caller's own list, empty (line 141) or not
GivenLists == {PyNone, PyList(<<>>), PyList(<<PyStr("earlier failure")>>)}

\* the caller's list once the list "errors" holds errs: the same object when
\* line 88 kept it
CallerList(errs) == IF Truthy(given_errors) THEN PyList(errs) ELSE given_errors

ExecInit ==
    /\ inst \in WorkflowInsts \cup ScriptInsts
    /\ actions \in IF inst.disp = "workflow"
                   THEN UNION {[1..n -> Requests] : n \in 0..MaxActions}
                   ELSE [1..1 -> Requests]
    /\ idx = 1
    /\ xpc = "idle"
    /\ rest = <<>>
    /\ xcalls = <<>> /\ errors = <<>> /\ xlog = <<>>
    /\ given_errors \in IF inst.disp = "script" THEN GivenLists ELSE {PyNone}
    /\ outcome = PyNone
    /\ execution_results = <<>>
    /\ CacheIdle
    /\ NormIdle
    /\ DiscIdle
    /\ KeyIdle
    /\ ConcIdle
    /\ ListIdle
    /\ RaceIdle
    /\ SlackIdle

ExecFrame ==
    UNCHANGED <<cacheVars, normVars, discVars, keyVars, concVars, listVars, raceVars,
                slackVars>>

\* a call of the current _execute_action, as it is recorded
CallRec(strategy, c, o) ==
    [n |-> idx, strategy |-> strategy, tool |-> c.tool, params |-> c.params,
     oob |-> c.oob, body |-> c.body, out |-> o]

LogRec(msg, e) == [n |-> idx, msg |-> msg, exc |-> e]

\* lines 416-417 and 443: the loop calls _execute_action for the next action
ExecBegin ==
    /\ inst.disp = "workflow"
    /\ xpc = "idle"
    /\ idx <= Len(actions)
    /\ xpc' = "v3"
    /\ UNCHANGED <<inst, actions, idx, rest, xcalls, errors, given_errors, xlog, outcome,
                   execution_results>>
    /\ ExecFrame

\* lines 446-465 with a response that carries an "error" key taken for a
\* failure of the call
ExecV3RetryOnErrorPayload ==
    /\ xpc = "v3"
    /\ IF inst.v3
       THEN \E o \in CallOutcomes(V3Results) :
              LET a == actions[idx]
                  failed == o[1] = "raise" \/ (Tag(o[2]) = "dict" /\ "error" \in DOMAIN o[2][2])
              IN /\ xcalls' = Append(xcalls, CallRec("v3", v3_call(a.action, a.params), o))
                 /\ IF failed
                    THEN /\ xlog' = Append(xlog,
                                LogRec("composio_client.tools.execute failed", "any"))
                         /\ xpc' = "legacy"
                         /\ UNCHANGED outcome
                    ELSE /\ outcome' = v3_payload(o[2])
                         /\ xpc' = "returned"
                         /\ UNCHANGED xlog
       ELSE /\ xpc' = "legacy"
            /\ UNCHANGED <<xcalls, xlog, outcome>>
    /\ UNCHANGED <<inst, actions, idx, rest, errors, given_errors, execution_results>>
    /\ ExecFrame

\* lines 446-465 with the reserved keys popped from the caller's mapping
\* itself instead of a copy of it
ExecV3PopsCallerParams ==
    /\ xpc = "v3"
    /\ IF inst.v3
       THEN \E o \in CallOutcomes(V3Results) :
              LET a == actions[idx]
                  popped == DictPop(DictPop(DictPop(a.params, "connected_account_id"),
                                            "user_id"), "allow_tracing")
              IN /\ xcalls' = Append(xcalls, CallRec("v3", v3_call(a.action, a.params), o))
                 /\ actions' = [actions EXCEPT ![idx].params = popped]
                 /\ IF o[1] = "raise"
                    THEN /\ xlog' = Append(xlog,
                                LogRec("composio_client.tools.execute failed", o[2].exc))
                         /\ xpc' = "legacy"
                         /\ UNCHANGED outcome
                    ELSE /\ outcome' = v3_payload(o[2])
                         /\ xpc' = "returned"
                         /\ UNCHANGED xlog
       ELSE /\ xpc' = "legacy"
            /\ UNCHANGED <<actions, xcalls, xlog, outcome>>
    /\ UNCHANGED <<inst, idx, rest, errors, given_errors, execution_results>>
    /\ ExecFrame

\* lines 446-465: the versioned client, when there is one
ExecV3 ==
    /\ xpc = "v3"
    /\ IF inst.v3
       THEN \E o \in CallOutcomes(V3Results) :
              LET a == actions[idx]
              IN /\ xcalls' = Append(xcalls, CallRec("v3", v3_call(a.action, a.params), o))
                 /\ IF o[1] = "raise"
                    THEN /\ xlog' = Append(xlog,
                                LogRec("composio_client.tools.execute failed", o[2].exc))
                         /\ xpc' = "legacy"
                         /\ UNCHANGED outcome
                    ELSE /\ outcome' = v3_payload(o[2])
                         /\ xpc' = "returned"
                         /\ UNCHANGED xlog
       ELSE /\ xpc' = "legacy"
            /\ UNCHANGED <<xcalls, xlog, outcome>>
    /\ UNCHANGED <<inst, actions, idx, rest, errors, given_errors, execution_results>>
    /\ ExecFrame

\* lines 467-499, returning the two given payloads at lines 470 and 476
ExecLegacyWith(unavailable, notFound) ==
    /\ xpc = "legacy"
    /\ LET a == actions[idx]
           enum == action_enum(inst, a.action)
       IN IF legacy_unavailable(inst)
          THEN /\ outcome' = unavailable
               /\ UNCHANGED <<xcalls, xlog>>
          ELSE IF enum = PyNone
          THEN /\ outcome' = notFound
               /\ xlog' = Append(xlog,
                      LogRec("Legacy Composio action enumeration missing", "none"))
               /\ UNCHANGED xcalls
          ELSE \E o \in CallOutcomes(LegacyResults) :
                 /\ xcalls' = Append(xcalls, CallRec("legacy", legacy_call(enum, a.params), o))
                 /\ IF o[1] = "raise"
                    THEN /\ outcome' = PyDict([error |-> ExcStr(o[2])])
                         /\ xlog' = Append(xlog,
                                LogRec("Failed to execute action", o[2].exc))
                    ELSE /\ outcome' = legacy_payload(o[2])
                         /\ UNCHANGED xlog
    /\ xpc' = "returned"
    /\ UNCHANGED <<inst, actions, idx, rest, errors, given_errors, execution_results>>
    /\ ExecFrame

\* lines 467-499 with one error code for both skips
ExecLegacyConfused == ExecLegacyWith(ErrUnavailable, ErrUnavailable)

\* lines 467-499 with the missing member reported as the lookup's exception
ExecLegacyNoDefault ==
    ExecLegacyWith(ErrUnavailable, PyDict([error |-> PyStr("UNKNOWN_ACTION")]))

\* lines 467-499: the legacy client
ExecLegacy == ExecLegacyWith(ErrUnavailable, ErrNotFound)

\* lines 418-419 with a result that carries an "error" key left out
RecordResultSkippingErrors ==
    /\ xpc = "returned"
    /\ execution_results' =
          IF outcome # PyNone /\ "error" \notin DOMAIN outcome[2]
          THEN Append(execution_results,
                      [action |-> actions[idx].action, result |-> outcome])
          ELSE execution_results
    /\ idx' = idx + 1
    /\ xpc' = "idle"
    /\ UNCHANGED <<inst, actions, rest, xcalls, errors, given_errors, xlog, outcome>>
    /\ ExecFrame

\* lines 417-419: the loop takes the returned payload and goes on
RecordResult ==
    /\ xpc = "returned"
    /\ execution_results' =
          IF outcome # PyNone
          THEN Append(execution_results,
                      [action |-> actions[idx].action, result |-> outcome])
          ELSE execution_results
    /\ idx' = idx + 1
    /\ xpc' = "idle"
    /\ UNCHANGED <<inst, actions, rest, xcalls, errors, given_errors, xlog, outcome>>
    /\ ExecFrame

\* the stage the script's loops reach once the names q are left
ScriptStage(stage, q) ==
    IF q # <<>> THEN stage ELSE IF stage = "actions" THEN "client" ELSE "http"

\* lines 88-90 of the script: errors = errors or [], then the first loop
\* when the client has an attribute "actions"
ScriptBegin ==
    /\ inst.disp = "script"
    /\ xpc = "idle"
    /\ errors' = PyOr(given_errors, PyList(<<>>))[2]
    /\ rest' = MethodNames
    /\ xpc' = IF inst.api # PyNone THEN "actions" ELSE "client"
    /\ UNCHANGED <<inst, actions, idx, xcalls, given_errors, xlog, outcome,
                   execution_results>>
    /\ ExecFrame

\* lines 91-100 and 101-110 of the script: one name of a for loop
ScriptMethod(stage) ==
    /\ xpc = stage
    /\ LET name == Head(rest)
           q == Tail(rest)
           callable == IF stage = "actions" THEN name \in inst.api[2]
                       ELSE name \in inst.methods
           a == actions[idx]
           nextRest == IF q = <<>> /\ stage = "actions" THEN MethodNames ELSE q
       IN IF ~callable
          THEN /\ rest' = nextRest
               /\ xpc' = ScriptStage(stage, q)
               /\ UNCHANGED <<xcalls, errors, outcome>>
          ELSE \E o \in CallOutcomes(ScriptResults) :
                 /\ xcalls' = Append(xcalls,
                        CallRec(stage \o "." \o name, script_call(a.action, a.params), o))
                 /\ IF o[1] = "ret"
                    THEN /\ outcome' = o[2]
                         /\ xpc' = "done"
                         /\ rest' = <<>>
                         /\ UNCHANGED errors
                    ELSE /\ errors' = IF o[2].exc = "TypeError" THEN errors
                                      ELSE Append(errors, script_error(stage, name, o[2]))
                         /\ rest' = nextRest
                         /\ xpc' = ScriptStage(stage, q)
                         /\ UNCHANGED outcome
    /\ given_errors' = CallerList(errors')
    /\ UNCHANGED <<inst, actions, idx, xlog, execution_results>>
    /\ ExecFrame

ScriptActionsMethod == ScriptMethod("actions")

ScriptClientMethod == ScriptMethod("client")

\* lines 111-118 of the script: the POST when there is a handle, and the
\* failure payload when nothing returned
ScriptHttp ==
    /\ xpc = "http"
    /\ LET a == actions[idx]
       IN IF http_handle(inst)
          THEN \E o \in CallOutcomes(ScriptResults) :
                 /\ xcalls' = Append(xcalls,
                        CallRec("http", http_call(a.action, a.params), o))
                 /\ IF o[1] = "ret"
                    THEN /\ outcome' = o[2]
                         /\ UNCHANGED errors
                    ELSE LET errs == Append(errors,
                                        PyStr("HTTP POST /v3/actions failed: " \o o[2].msg))
                         IN /\ errors' = errs
                            /\ outcome' = script_failure(errs)
          ELSE /\ outcome' = script_failure(errors)
               /\ UNCHANGED <<xcalls, errors>>
    /\ xpc' = "done"
    /\ given_errors' = CallerList(errors')
    /\ UNCHANGED <<inst, actions, idx, rest, xlog, execution_results>>
    /\ ExecFrame

ExecNext ==
    \/ ExecBegin
    \/ ExecV3
    \/ ExecLegacy
    \/ RecordResult
    \/ ScriptBegin
    \/ ScriptActionsMethod
    \/ ScriptClientMethod
    \/ ScriptHttp

SpecExec == ExecInit /\ [][ExecNext]_vars

----------------------------------------------------------------------------
(* The listing script, scripts/list_composio_tools.py: list_tools (lines   *)
(* 90-145) and _try_fetch_tools (lines 41-88).  A client is                *)
(* <<"client", r>> with r the callable methods of its attribute "tools"    *)
(* and whether it has an HTTP handle with a tools endpoint; o gives, for   *)
(* each call site, what the call does when it is made.                     *)

FetchSites == {"list", "get", "v3", "http"}

\* a step of _try_fetch_tools that neither returned nor raised
FetchOn(made) == [kind |-> "next", value |-> PyNone, calls |-> made]

\* line 60: the RuntimeError raised for a failed method
fetch_error(name, e) ==
    [exc |-> "RuntimeError", msg |-> "Composio.tools." \o name \o " failed: " \o e.msg]

\* lines 47-60: one name of _ATTEMPTS
fetch_named(client, name, o) ==
    IF name \notin client[2].methods THEN FetchOn(<<>>)
    ELSE LET out == o[name]
             made == <<[site |-> name, out |-> out]>>
         IN IF out[1] = "ret"
            THEN IF Truthy(out[2])
                 THEN [kind |-> "ret", value |-> out[2], calls |-> made]
                 ELSE FetchOn(made)
            ELSE IF out[2].exc = "TypeError" THEN FetchOn(made)
            ELSE [kind |-> "raise", value |-> fetch_error(name, out[2]), calls |-> made]

\* getattr(payload, "items", None) of a dict: the bound method dict.items
BoundItems == <<"method", "dict.items">>

\* lines 28-39: a dict has the attribute "items", its method, so that
\* line 33 returns for it and lines 37-38 are not reached
extract_v3_items(payload) ==
    IF payload = PyNone THEN PyList(<<>>)
    ELSE IF Tag(payload) = "dict" THEN BoundItems
    ELSE IF Tag(payload) = "attr" /\ "items" \in DOMAIN payload[2]
              /\ payload[2].items # PyNone THEN payload[2].items
    ELSE IF Tag(payload) = "attr" /\ "data" \in DOMAIN payload[2]
              /\ payload[2].data # PyNone THEN payload[2].data
    ELSE PyList(<<>>)

\* the keys of a mapping in the order iter() gives them: the order of
\* insertion, carried as a third component when the mapping has several keys
DictKeys(d) ==
    IF Len(d) = 3 THEN d[3] ELSE CHOOSE q \in Orders(DOMAIN d[2]) : TRUE

\* iter(v) succeeds: lists, tuples, strings and mappings
Iterable(v) == Tag(v) \in {"list", "tuple", "str", "dict"}

\* what `for item in v` visits: the elements of a list or tuple, the
\* characters of a string, the keys of a mapping
py_iter(v) ==
    CASE Tag(v) \in {"list", "tuple"} -> v[2]
      [] Tag(v) = "str" -> [i \in 1..Len(v[2]) |-> PyStr(SubSeq(v[2], i, i))]
      [] Tag(v) = "dict" -> LET keys == DictKeys(v)
                            IN [i \in 1..Len(keys) |-> PyStr(keys[i])]

\* lines 65-74
v3_normalized(items) ==
    [i \in 1..Len(items) |->
        IF Dumpable(items[i]) THEN to_mapping(items[i]) ELSE PyDict([raw |-> items[i]])]

\* lines 61-78: the versioned client's listing, its exceptions dropped; the
\* for loop of line 66 visits whatever is iterable, and over something that
\* is not it raises TypeError, which line 77 drops as well
fetch_v3(hasV3, o) ==
    IF ~hasV3 THEN FetchOn(<<>>)
    ELSE LET out == o["v3"]
             made == <<[site |-> "v3", out |-> out]>>
         IN IF out[1] = "raise" THEN FetchOn(made)
            ELSE LET items == PyOr(extract_v3_items(out[2]), PyList(<<>>))
                 IN IF ~Iterable(items) THEN FetchOn(made)
                    ELSE LET normalized == v3_normalized(py_iter(items))
                         IN IF normalized # <<>>
                            THEN [kind |-> "ret", value |-> PyList(normalized),
                                  calls |-> made]
                            ELSE FetchOn(made)

\* lines 79-87: the GET, whose exception is not caught here
fetch_http(client, o) ==
    IF ~client[2].http THEN FetchOn(<<>>)
    ELSE LET out == o["http"]
             made == <<[site |-> "http", out |-> out]>>
         IN IF out[1] = "raise"
            THEN [kind |-> "raise", value |-> out[2], calls |-> made]
            ELSE [kind |-> "ret",
                  value |-> PyOr(PyOr(DictGet(out[2], "items"), DictGet(out[2], "data")),
                                 out[2]),
                  calls |-> made]

\* the step s taken when the steps before it went on
FetchThen(prev, s) ==
    IF prev.kind # "next" THEN prev
    ELSE [kind |-> s.kind, value |-> s.value, calls |-> prev.calls \o s.calls]

\* lines 41-88
try_fetch_tools(client, hasV3, o) ==
    FetchThen(FetchThen(FetchThen(FetchThen(
        fetch_named(client, "list", o), fetch_named(client, "get", o)),
        fetch_v3(hasV3, o)), fetch_http(client, o)),
        [kind |-> "ret", value |-> PyList(<<>>), calls |-> <<>>])

(* Inputs of the listing machine *)

ListedItems == PyList(<<ItemSlugA>>)

NamedOutcomes ==
    {Ret(ListedItems), Ret(PyList(<<>>)), Raise(ExcTypeError), Raise(ExcRuntime)}
V3ListOutcomes ==
    {Ret(<<"attr", [items |-> PyList(<<ItemModelLower, ItemAttr>>)]>>), Ret(PyNone),
     Ret(PyDict([items |-> ListedItems])),
     Ret(<<"attr", [data |-> PyDict([items |-> ListedItems])]>>),
     Ret(<<"attr", [items |-> PyStr("ab")]>>), Raise(ExcRuntime)}
HttpGetOutcomes ==
    {Ret(PyDict([items |-> ListedItems])), Ret(EmptyDict), Raise(ExcRuntime)}

FetchOutcomes ==
    {o \in [FetchSites -> NamedOutcomes \cup V3ListOutcomes \cup HttpGetOutcomes] :
        /\ o["list"] \in NamedOutcomes /\ o["get"] \in NamedOutcomes
        /\ o["v3"] \in V3ListOutcomes /\ o["http"] \in HttpGetOutcomes}

\* primary_client, and v3_client, which is None without composio_client
Client(ms, h) == <<"client", [methods |-> ms, http |-> h]>>
PrimaryClients == {Client(ms, h) : ms \in {{}, {"list"}, {"list", "get"}}, h \in BOOLEAN}
V3Clients == {PyNone, Client({"list"}, FALSE)}

ToolkitLists == {<<"gmail">>, <<"gmail", "slack">>}

ListInit ==
    /\ lcfg \in [v3_client : V3Clients, primary_client : PrimaryClients]
    /\ lpc = "toolkit"
    /\ todo \in ToolkitLists
    /\ tools = PyNone
    /\ last_error = PyNone
    /\ lcalls = <<>>
    /\ printed = <<>>
    /\ CacheIdle
    /\ NormIdle
    /\ DiscIdle
    /\ KeyIdle
    /\ ConcIdle
    /\ ExecIdle
    /\ RaceIdle
    /\ SlackIdle

ListFrame ==
    UNCHANGED <<cacheVars, normVars, discVars, keyVars, concVars, execVars, raceVars,
                slackVars>>

\* lines 102-105: the next toolkit of the for loop
ListToolkit ==
    /\ lpc = "toolkit"
    /\ todo # <<>>
    /\ tools' = PyNone
    /\ last_error' = PyNone
    /\ lcalls' = <<>>
    /\ lpc' = "v3_client"
    /\ UNCHANGED <<lcfg, todo, printed>>
    /\ ListFrame

\* lines 106-118 for one client of (v3_client, primary_client)
ListClient(which) ==
    /\ lpc = which
    /\ LET client == lcfg[which]
           after == IF which = "v3_client" THEN "primary_client" ELSE "report"
       IN IF client = PyNone
          THEN /\ lpc' = after
               /\ UNCHANGED <<tools, last_error, lcalls>>
          ELSE \E o \in FetchOutcomes :
                 LET r == try_fetch_tools(client, lcfg.v3_client # PyNone, o)
                 IN /\ lcalls' = lcalls \o [i \in 1..Len(r.calls) |->
                                     [client |-> which, site |-> r.calls[i].site,
                                      out |-> r.calls[i].out]]
                    /\ IF r.kind = "raise"
                       THEN /\ last_error' = <<"exc", r.value>>
                            /\ lpc' = after
                            /\ UNCHANGED tools
                       ELSE IF Truthy(r.value)
                       THEN /\ tools' = r.value
                            /\ lpc' = "report"
                            /\ UNCHANGED last_error
                       ELSE /\ tools' = IF tools = PyNone THEN r.value ELSE tools
                            /\ lpc' = after
                            /\ UNCHANGED last_error
    /\ UNCHANGED <<lcfg, todo, printed>>
    /\ ListFrame

ListV3Client == ListClient("v3_client")

ListPrimaryClient == ListClient("primary_client")

\* lines 119-145: the failure line, or the listing of the tools
ListReport ==
    /\ lpc = "report"
    /\ printed' = Append(printed,
          IF tools = PyNone
          THEN [tk |-> Head(todo), failed |-> TRUE,
                error |-> IF last_error # PyNone THEN PyStr(last_error[2].msg)
                          ELSE PyStr("tools API unavailable"),
                tools |-> PyNone]
          ELSE [tk |-> Head(todo), failed |-> FALSE, error |-> PyNone, tools |-> tools])
    /\ todo' = Tail(todo)
    /\ lpc' = "toolkit"
    /\ UNCHANGED <<lcfg, tools, last_error, lcalls>>
    /\ ListFrame

ListNext == ListToolkit \/ ListV3Client \/ ListPrimaryClient \/ ListReport

SpecList == ListInit /\ [][ListNext]_vars

----------------------------------------------------------------------------
(* The Slack alert of the workflow: __init__ (line 85), _find_tool (lines  *)
(* 87-94), _prepare_gmail_action (lines 106-148), _prepare_slack_action    *)
(* (lines 150-196) and the part of run_research that prepares the actions  *)
(* and hands them to _execute_action (lines 404-419).  A Python str is a   *)
(* TLA+ string here, so that its length and its substrings are those of    *)
(* the text.                                                               *)

UpperLetters == "ABCDEFGHIJKLMNOPQRSTUVWXYZ"
LowerLetters == "abcdefghijklmnopqrstuvwxyz"

\* str.lower() of one character
lower_char(c) ==
    IF \E i \in 1..Len(UpperLetters) : SubSeq(UpperLetters, i, i) = c
    THEN LET i == CHOOSE i \in 1..Len(UpperLetters) : SubSeq(UpperLetters, i, i) = c
         IN SubSeq(LowerLetters, i, i)
    ELSE c

\* str.lower()
RECURSIVE str_lower(_)
str_lower(s) ==
    IF Len(s) = 0 THEN ""
    ELSE IF Len(s) = 1 THEN lower_char(s)
    ELSE LET h == Len(s) \div 2
         IN str_lower(SubSeq(s, 1, h)) \o str_lower(SubSeq(s, h + 1, Len(s)))

\* k in s, for a non-empty k
str_contains(s, k) ==
    \E i \in 0..(Len(s) - Len(k)) : SubSeq(s, i + 1, i + Len(k)) = k

Whitespace == {" ", "\n", "\t"}

IsSpace(s, i) == SubSeq(s, i, i) \in Whitespace

\* str.strip()
str_strip(s) ==
    IF \A i \in 1..Len(s) : IsSpace(s, i) THEN ""
    ELSE LET first == CHOOSE i \in 1..Len(s) :
                         ~IsSpace(s, i) /\ \A j \in 1..(i - 1) : IsSpace(s, j)
             last == CHOOSE i \in 1..Len(s) :
                         ~IsSpace(s, i) /\ \A j \in (i + 1)..Len(s) : IsSpace(s, j)
         IN SubSeq(s, first, last)

\* n copies of the character c
RECURSIVE Repeat(_, _)
Repeat(c, n) ==
    IF n <= 0 THEN ""
    ELSE IF n = 1 THEN c
    ELSE Repeat(c, n \div 2) \o Repeat(c, n - (n \div 2))

\* json.dumps(v): the JSON text of v
JsonText(v) == <<"jsontext", JsonRoundTrip(v)>>

\* line 85: the terms of RISK_TERMS stripped, lowercased, the empty ones left out
risk_terms(env) ==
    LET cleaned == [i \in 1..Len(env) |-> str_lower(str_strip(env[i]))]
    IN SelectSeq(cleaned, LAMBDA t : str_strip(t) # "")

\* lines 87-94: the slug of the first record of the toolkit whose lowercased
\* slug holds the keyword
RECURSIVE _find_tool(_, _, _)
_find_tool(records, toolkit, keyword) ==
    IF records = <<>> THEN PyNone
    ELSE LET record == Head(records)
             slug == PyOr(DictGet(record, "slug"), PyStr(""))[2]
         IN IF /\ DictGet(record, "toolkit") = PyStr(toolkit)
               /\ str_contains(str_lower(slug), str_lower(keyword))
            THEN PyOr(DictGet(record, "slug"), DictGet(record, "id"))
            ELSE _find_tool(Tail(records), toolkit, keyword)

\* lines 106-148.  The CSV link of lines 116-125 goes into a local list that
\* is not put into params, and line 147 sets no key, "body" being there.
_prepare_gmail_action(w, text) ==
    IF w.gmail_account_id = "" \/ w.gmail_recipients = <<>> THEN PyNone
    ELSE LET action_slug == PyOr(_find_tool(w.tool_catalog, "gmail", "send_email"),
                                 _find_tool(w.tool_catalog, "gmail", "create_email_draft"))
             sheet == IF Truthy(w.sheet_url)
                      THEN "\n\n" \o "Google Sheet: " \o w.sheet_url[2] ELSE ""
             body == "Ticker: " \o w.ticker \o "\n\n" \o "Summary:" \o "\n\n" \o text
                        \o sheet
             primary_recipient == w.gmail_recipients[1]
             extra_recipients ==
                PyList([i \in 1..(Len(w.gmail_recipients) - 1) |->
                            PyStr(w.gmail_recipients[i + 1])])
             first_params ==
                PyDict([connected_account_id |-> PyStr(w.gmail_account_id),
                        recipient_email |-> PyStr(primary_recipient),
                        subject |-> PyStr(w.ticker \o " hedge fund research update"),
                        body |-> PyStr(body),
                        is_html |-> <<"bool", FALSE>>])
             params == IF Truthy(extra_recipients)
                       THEN DictSet(first_params, "extra_recipients", extra_recipients)
                       ELSE first_params
         IN IF ~Truthy(action_slug) THEN PyNone
            ELSE PyDict([action |-> action_slug, params |-> params])

max_block_chars == 2900

\* lines 164-169 with the cut made after max_block_chars characters
alert_text_cut_late(ticker, text) ==
    LET base_text == "Attention required for " \o ticker
        slack_body == str_strip(text)
        whole == IF slack_body # "" THEN "*" \o base_text \o "*" \o "\n" \o slack_body
                 ELSE "*" \o base_text \o "*"
    IN IF Len(whole) > max_block_chars
       THEN SubSeq(whole, 1, max_block_chars) \o "..."
       ELSE whole

\* lines 164-169: the text of the alert block
alert_text(ticker, text) ==
    LET base_text == "Attention required for " \o ticker
        slack_body == str_strip(text)
        whole == IF slack_body # "" THEN "*" \o base_text \o "*" \o "\n" \o slack_body
                 ELSE "*" \o base_text \o "*"
    IN IF Len(whole) > max_block_chars
       THEN SubSeq(whole, 1, max_block_chars - 3) \o "..."
       ELSE whole

Section(t) ==
    PyDict([type |-> PyStr("section"),
            text |-> PyDict([type |-> PyStr("mrkdwn"), text |-> PyStr(t)])])

\* lines 150-196 with the risk terms not looked for
_prepare_slack_action_always(w, text) ==
    IF w.slack_account_id = "" \/ w.slack_channel = "" THEN PyNone
    ELSE LET action_slug == PyOr(_find_tool(w.tool_catalog, "slack", "post_message"),
                                 _find_tool(w.tool_catalog, "slack", "send_message"))
             blocks == <<Section(alert_text(w.ticker, text))>>
                       \o IF Truthy(w.sheet_url)
                          THEN <<Section("<" \o w.sheet_url[2] \o "|View Google Sheet>")>>
                          ELSE <<>>
         IN IF ~Truthy(action_slug) THEN PyNone
            ELSE PyDict([action |-> action_slug,
                         params |-> PyDict([
                            connected_account_id |-> PyStr(w.slack_account_id),
                            channel |-> PyStr(w.slack_channel),
                            text |-> PyStr("Attention required for " \o w.ticker),
                            blocks |-> JsonText(PyList(blocks))])])

\* lines 150-196
_prepare_slack_action(w, text) ==
    IF w.slack_account_id = "" \/ w.slack_channel = "" THEN PyNone
    ELSE IF ~\E i \in 1..Len(w.risk_terms) :
                str_contains(str_lower(text), w.risk_terms[i])
    THEN PyNone
    ELSE LET action_slug == PyOr(_find_tool(w.tool_catalog, "slack", "post_message"),
                                 _find_tool(w.tool_catalog, "slack", "send_message"))
             blocks == <<Section(alert_text(w.ticker, text))>>
                       \o IF Truthy(w.sheet_url)
                          THEN <<Section("<" \o w.sheet_url[2] \o "|View Google Sheet>")>>
                          ELSE <<>>
         IN IF ~Truthy(action_slug) THEN PyNone
            ELSE PyDict([action |-> action_slug,
                         params |-> PyDict([
                            connected_account_id |-> PyStr(w.slack_account_id),
                            channel |-> PyStr(w.slack_channel),
                            text |-> PyStr("Attention required for " \o w.ticker),
                            blocks |-> JsonText(PyList(blocks))])])

\* a record of the catalog
Tool(toolkit, slug) ==
    PyDict([toolkit |-> PyStr(toolkit), id |-> PyStr(slug), slug |-> PyStr(slug),
            name |-> PyNone])

\* catalogs discovery may leave in self.tool_catalog
SlackCatalogs ==
    {<<>>,
     <<Tool("gmail", "GMAIL_SEND_EMAIL"), Tool("slack", "SLACK_SEND_MESSAGE"),
       Tool("slack", "SLACK_POST_MESSAGE")>>,
     <<Tool("slack", "Slack_Send_Message_v2")>>,
     <<Tool("gmail", "SLACK_POST_MESSAGE"), Tool("slack", "SLACK_LIST_CHANNELS")>>,
     <<PyDict([toolkit |-> PyStr("slack"), id |-> PyStr("SLACK_POST_MESSAGE"),
               slug |-> PyNone, name |-> PyStr("post_message")])>>}

\* values of RISK_TERMS, already split at the commas
RiskEnvs == {<<"Risk ", " ", "DOWN">>, <<>>}

\* the lengths of the filler that bring the alert of either ticker to
\* max_block_chars characters, just below it and beyond it
FillerLengths ==
    {max_block_chars - 35, max_block_chars - 34, max_block_chars - 31,
     max_block_chars - 30, max_block_chars + 100}

\* texts the model may produce
ResearchTexts ==
    {"All fine.", " \n", "High RISK ahead", "  Markets are Down \n", "brisket"}
    \cup {"risk" \o Repeat("a", n) : n \in FillerLengths}

\* values of self.gmail_recipients (lines 72-79): none, one address, two
\* addresses as in the default
RecipientLists == {<<>>, <<"a@x.org">>, <<"a@x.org", "b@x.org">>}

\* the workflow object after __init__ and discovery
Workflows ==
    {[slack_account_id |-> a, slack_channel |-> c, risk_env |-> e,
      risk_terms |-> risk_terms(e), ticker |-> t, sheet_url |-> PyNone,
      gmail_account_id |-> "ca_g", gmail_recipients |-> g,
      tool_catalog |-> k] :
        a \in {"ca_2", ""}, c \in {"C09", ""}, e \in RiskEnvs, t \in {"X", "ACME"},
        g \in RecipientLists, k \in SlackCatalogs}

SlackInit ==
    /\ wf \in Workflows
    /\ research_text \in ResearchTexts
    /\ spc = "research"
    /\ slack_action = PyNone
    /\ executed = <<>>
    /\ CacheIdle
    /\ NormIdle
    /\ DiscIdle
    /\ KeyIdle
    /\ ConcIdle
    /\ ExecIdle
    /\ ListIdle
    /\ RaceIdle

SlackFrame ==
    UNCHANGED <<cacheVars, normVars, discVars, keyVars, concVars, execVars, listVars,
                raceVars>>

\* line 405
PrepareSlack ==
    /\ spc = "research"
    /\ slack_action' = _prepare_slack_action(wf, research_text)
    /\ spc' = "prepared"
    /\ UNCHANGED <<wf, research_text, executed>>
    /\ SlackFrame

\* lines 404 and 407-419: the prepared actions are collected and each is
\* given to _execute_action
ExecuteActions ==
    /\ spc = "prepared"
    /\ LET gmail_action == _prepare_gmail_action(wf, research_text)
       IN executed' = (IF Truthy(gmail_action) THEN <<gmail_action>> ELSE <<>>)
                      \o (IF Truthy(slack_action) THEN <<slack_action>> ELSE <<>>)
    /\ spc' = "executed"
    /\ UNCHANGED <<wf, research_text, slack_action>>
    /\ SlackFrame

SlackNext == PrepareSlack \/ ExecuteActions

SpecSlack == SlackInit /\ [][SlackNext]_vars

----------------------------------------------------------------------------
(* Claims on the normaliser *)

Or3(a, b, c) == PyOr(PyOr(a, b), c)

NestedSlug(source) ==
    IF Tag(DictGet(source, "toolkit")) = "dict"
    THEN DictGet(DictGet(source, "toolkit"), "slug") ELSE PyNone

SlugOnly(source) ==
    /\ Truthy(DictGet(source, "slug"))
    /\ \A k \in (DOMAIN source[2]) \ {"slug"} : source[2][k] = PyNone

\* C5: a normalised record has id = id or slug or tool_slug, slug = slug or
\* tool_slug or nested toolkit slug, and name = name or display_name or the
\* derived id; an item carrying only a slug S under group G becomes
\* {group G, id S, slug S, name S}.
C5_NormalizeFields ==
    nstage # "raw" =>
        /\ DictGet(rec, "id") =
              Or3(DictGet(item, "id"), DictGet(item, "slug"), DictGet(item, "tool_slug"))
        /\ DictGet(rec, "slug") =
              Or3(DictGet(item, "slug"), DictGet(item, "tool_slug"), NestedSlug(item))
        /\ DictGet(rec, "name") =
              Or3(DictGet(item, "name"), DictGet(item, "display_name"), DictGet(rec, "id"))
        /\ SlugOnly(item) =>
              rec = PyDict([toolkit |-> PyStr(grp), id |-> DictGet(item, "slug"),
                            slug |-> DictGet(item, "slug"), name |-> DictGet(item, "slug")])

\* C6: normalising a record that normalisation produced, under the same
\* group, gives a record with the same id, slug and name.
C6_NormalizeIdempotent ==
    nstage = "renormalized" =>
        /\ DictGet(rec2, "id") = DictGet(rec, "id")
        /\ DictGet(rec2, "slug") = DictGet(rec, "slug")
        /\ DictGet(rec2, "name") = DictGet(rec, "name")

\* the slug a field of the item gives when the field counts as present
SlugFrom(present(_), source) ==
    IF present(DictGet(source, "slug")) THEN DictGet(source, "slug")
    ELSE IF present(DictGet(source, "tool_slug")) THEN DictGet(source, "tool_slug")
    ELSE NestedSlug(source)

IsSet(v) == v # PyNone

\* C21, as stated with "present" read as "holds a value": the record's slug is
\* the item's slug when the item holds one, otherwise its tool_slug, and the
\* nested toolkit slug only when the item holds neither and the toolkit value
\* is a mapping.
C21_SlugPrecedenceSet ==
    nstage # "raw" => DictGet(rec, "slug") = SlugFrom(IsSet, item)

\* C21: the record's slug is the item's slug when that is non-empty, otherwise
\* its non-empty tool_slug, and the slug of the nested toolkit mapping only
\* when the item has neither non-empty and the toolkit value is a mapping; the
\* nested slug never replaces a non-empty slug or tool_slug of the item.
C21_SlugPrecedence ==
    nstage # "raw" =>
        /\ DictGet(rec, "slug") = SlugFrom(Truthy, item)
        /\ (Truthy(DictGet(item, "slug")) => DictGet(rec, "slug") = DictGet(item, "slug"))
        /\ (Tag(DictGet(item, "toolkit")) # "dict" /\ DictGet(rec, "slug") # PyNone
               => DictGet(rec, "slug") \in {DictGet(item, "slug"), DictGet(item, "tool_slug")})

\* an item with its own slug and a different nested toolkit slug keeps its own
C21_Witness ==
    /\ nstage = "normalized"
    /\ Truthy(DictGet(item, "slug"))
    /\ Truthy(NestedSlug(item))
    /\ NestedSlug(item) # DictGet(item, "slug")
    /\ DictGet(rec, "slug") = DictGet(item, "slug")


----------------------------------------------------------------------------
(* Claims on the cache *)

\* json gives v back changed: a tuple or a mapping with integer keys occurs
\* in it
RECURSIVE Reshaped(_)
Reshaped(v) ==
    CASE Tag(v) \in {"tuple", "intdict"} -> TRUE
      [] Tag(v) = "list" -> \E i \in 1..Len(v[2]) : Reshaped(v[2][i])
      [] Tag(v) = "dict" -> \E k \in DOMAIN v[2] : Reshaped(v[2][k])
      [] OTHER -> FALSE

\* C8 as stated: after any sequence of saves, load(path, k, None) returns the
\* value given to the most recent save for k (the latest that returned),
\* unchanged, whatever serialisable value it is.
C8_RoundTripUnchanged ==
    (IsLoad /\ op[3] = PyNone /\ given[op[2]] # NoSave) => ret = Ret(given[op[2]])

\* C8 amended: after any sequence of saves, load(path, k, None) returns the
\* JSON form of the value given to the most recent completed save for k when
\* the file can be opened for reading and no later save has removed the
\* entry (by raising after it truncated the file, or by completing from an
\* empty store on a file it could not read), and returns None otherwise.
\* The JSON form is the value itself (falsy values included) when no tuple
\* and no integer-keyed mapping occurs in it; it has each tuple turned into
\* a list and each integer key into its decimal text otherwise.
C8_RoundTripJson ==
    (IsLoad /\ op[3] = PyNone /\ given[op[2]] # NoSave) =>
        IF saved[op[2]] # NoSave /\ file[1] # "unreadable"
        THEN /\ saved[op[2]] = given[op[2]]
             /\ ret = Ret(JsonRoundTrip(saved[op[2]]))
             /\ ~Reshaped(saved[op[2]]) => ret = Ret(saved[op[2]])
        ELSE ret = Ret(PyNone)

\* a falsy value saved under one key, another key saved after it, and the
\* falsy value loaded back
C8_Witness ==
    /\ IsLoad /\ op[3] = PyNone
    /\ saved[op[2]] = PyList(<<>>)
    /\ \E k \in Keys \ {op[2]} : saved[k] # NoSave /\ EntryWellFormed(k)
                                   /\ EntryWellFormed(op[2]) /\ EntryTs(k) > EntryTs(op[2])
    /\ ret = Ret(PyList(<<>>))

\* C9: a well-formed entry read with a max age is returned when
\* now - ts <= max_age and is a miss when now - ts > max_age; read without a
\* max age it is returned however old it is.
C9_ExpiryBoundary ==
    (IsLoad /\ EntryWellFormed(op[2])) =>
        IF op[3] = PyNone
        THEN ret = Ret(EntryValue(op[2]))
        ELSE /\ (now - EntryTs(op[2]) <= op[3][2]) => ret = Ret(EntryValue(op[2]))
             /\ (now - EntryTs(op[2]) > op[3][2]) => ret = Ret(PyNone)

\* an entry read exactly at the boundary, some time after it was written
C9_Witness ==
    /\ IsLoad /\ EntryWellFormed(op[2]) /\ op[3] # PyNone
    /\ now - EntryTs(op[2]) = op[3][2]
    /\ op[3][2] > 0
    /\ EntryValue(op[2]) # PyNone
    /\ ret = Ret(EntryValue(op[2]))

\* the file is in one of the states the claim lists for key k
UnusableFor(k) ==
    \/ file[1] # "json"
    \/ Tag(file[2]) # "dict"
    \/ /\ k \in DOMAIN file[2][2]
       /\ \/ Tag(file[2][2][k]) # "dict"
          \/ Tag(DictGet(file[2][2][k], "ts")) # "int"

\* C10: load never raises, and returns None when the file is absent,
\* unreadable, unparseable, not a mapping, or holds for the key an entry that
\* is not a mapping or has no numeric timestamp.
C10_LoadNeverRaises ==
    IsLoad => /\ ret[1] = "ret"
              /\ UnusableFor(op[2]) => ret = Ret(PyNone)

\* the file holds a well-formed store: a mapping whose entries all are
\* {ts: number, value: ...}
StoreWellFormed(f) ==
    /\ f[1] = "json"
    /\ Tag(f[2]) = "dict"
    /\ \A k \in DOMAIN f[2][2] :
          /\ Tag(f[2][2][k]) = "dict"
          /\ DOMAIN f[2][2][k][2] = {"ts", "value"}
          /\ Tag(f[2][2][k][2]["ts"]) = "int"

\* the step is a call save_cache(path, k, v) that met no file-system failure
SaveStep == op'[1] = "save" /\ op'[4] = "ok"

\* the store g is the store f with entry e under k and every other entry as
\* it was
OnlyKeyChanged(f, g, k, e) ==
    /\ g[1] = "json" /\ Tag(g[2]) = "dict"
    /\ DOMAIN g[2][2] = DOMAIN f[2][2] \cup {k}
    /\ \A x \in DOMAIN f[2][2] \ {k} : g[2][2][x] = f[2][2][x]
    /\ g[2][2][k] = e

\* C11 as stated: a save on a file holding a well-formed store leaves every
\* other key's entry as it was and sets the entry of k to {ts: now, value: v},
\* whatever the value v.
C11_SaveChangesOnlyKey ==
    [][(SaveStep /\ StoreWellFormed(Content(file))) =>
          OnlyKeyChanged(Content(file), Content(file'), op'[2],
                         PyDict([ts |-> PyInt(now), value |-> op'[3]]))]_vars

\* C11 amended: a call save(path, k, v) on a file holding a well-formed store
\* - raises and leaves the file as it was when the file cannot be opened for
\*   writing;
\* - raises and leaves a text that no longer parses, so that every entry is
\*   lost, when v cannot be serialised;
\* - otherwise completes, and when the file can be opened for reading leaves
\*   every other key's entry as it was and sets the entry of k to {ts: now,
\*   value: the JSON form of v}, while on a file that cannot be opened for
\*   reading it leaves the entry of k alone in the store.
C11_SaveFrame ==
    [][(op'[1] = "save" /\ StoreWellFormed(Content(file))) =>
          LET entry == PyDict([ts |-> PyInt(now), value |-> JsonRoundTrip(op'[3])])
          IN IF op'[4] # "ok"
             THEN ret'[1] = "raise" /\ file' = file
             ELSE IF ~Serializable(op'[3])
             THEN ret'[1] = "raise" /\ Content(file') = Garbage
             ELSE /\ ret' = Ret(PyNone)
                  /\ file'[1] = file[1]
                  /\ IF file[1] = "json"
                     THEN OnlyKeyChanged(file, file', op'[2], entry)
                     ELSE Content(file') =
                            JsonFile(PyDict([x \in {op'[2]} |-> entry]))]_vars

\* a completed save of one key, into a store that holds an older entry of
\* another key
C11_Witness ==
    /\ op[1] = "save" /\ op[4] = "ok" /\ ret = Ret(PyNone)
    /\ StoreWellFormed(file)
    /\ EntryWellFormed(op[2]) /\ EntryTs(op[2]) = now
    /\ \E x \in Keys \ {op[2]} : EntryWellFormed(x) /\ EntryTs(x) < now

\* C12: a save with a serialisable value on a file that is not a usable
\* store (unparseable, or JSON whose top level is not a mapping) completes
\* and leaves a store holding exactly the entry of k.
C12_SaveToleratesCorruptFile ==
    [][(/\ SaveStep /\ Serializable(op'[3])
        /\ \/ file = Garbage
           \/ file[1] = "json" /\ Tag(file[2]) # "dict") =>
          /\ ret' = Ret(PyNone)
          /\ file' = JsonFile(PyDict([x \in {op'[2]} |->
                          PyDict([ts |-> PyInt(now),
                                  value |-> JsonRoundTrip(op'[3])])]))]_vars

\* C13 as stated: no load changes the cache file, and a load that follows one
\* which found the entry expired returns the entry when it is called without
\* a max age or with a larger max age.
C13_LoadAfterExpiry ==
    [][op'[1] = "load" =>
          /\ file' = file
          /\ (/\ op'[4]
              /\ \/ op'[3] = PyNone
                 \/ op'[3] # PyNone /\ op'[3][2] > op[3][2]) =>
                ret' = Ret(EntryValue(op'[2]))]_vars

\* C13 amended: no load changes the cache file, and a load that follows one
\* which found the entry expired returns the entry when it is called without
\* a max age or with a larger max age that the entry's age does not exceed;
\* with a larger max age that the entry's age still exceeds it returns None.
C13_LoadReadOnly ==
    [][op'[1] = "load" =>
          /\ file' = file
          /\ (op'[4] /\ op'[3] = PyNone) => ret' = Ret(EntryValue(op'[2]))
          /\ (op'[4] /\ op'[3] # PyNone /\ op'[3][2] > op[3][2]) =>
                IF now - EntryTs(op'[2]) <= op'[3][2]
                THEN ret' = Ret(EntryValue(op'[2]))
                ELSE ret' = Ret(PyNone)]_vars

\* an entry found expired by one load and returned by the next, called
\* with a larger max age
C13_Witness ==
    /\ IsLoad /\ op[4] /\ op[3] # PyNone
    /\ EntryWellFormed(op[2])
    /\ EntryValue(op[2]) # PyNone
    /\ ret = Ret(EntryValue(op[2]))

\* C16 as stated: starting from an absent file, whatever saves were made,
\* the file (once written) is one JSON mapping whose entries all have
\* exactly the fields ts, a number, and value.
C16_ShapeAlways == file = Absent \/ StoreWellFormed(file)

\* C16 amended: starting from an absent file, the file is absent, or one
\* JSON mapping whose entries all have exactly the fields ts (a number) and
\* value, or, after a save whose value could not be serialised and until
\* the next save that completes, a truncated text that does not parse;
\* after every save that completes it is such a mapping.
C16_ShapeAfterCompletedSave ==
    /\ file = Absent \/ file = Garbage \/ StoreWellFormed(file)
    /\ file = Garbage => \A k \in Keys : saved[k] = NoSave
    /\ (op[1] = "save" /\ ret = Ret(PyNone)) => StoreWellFormed(file)

\* a store built by completed saves of two keys
C16_Witness ==
    /\ op[1] = "save" /\ ret = Ret(PyNone)
    /\ \A k \in Keys : saved[k] # NoSave /\ EntryWellFormed(k)
    /\ StoreWellFormed(file)

----------------------------------------------------------------------------
(* Claims on discovery *)

Adapters == {"v3", "list", "get", "http"}

Rank(a) == CASE a = "v3" -> 1 [] a = "list" -> 2 [] a = "get" -> 3 [] OTHER -> 4

\* how an adapter invocation ended
ResultOf(c) ==
    IF c.raised THEN "raised" ELSE IF c.items = <<>> THEN "empty" ELSE "nonempty"

InRun == pc \in {"fetch", "v3", "list", "get", "http", "norm"}

\* the toolkit cur has been fetched and normalised
GroupResolved == pc = "fetch" /\ cur # ""

\* C1: adapters are invoked in the order v3, list, get, http; an adapter is
\* invoked only if every earlier one raised or returned an empty result, so
\* none is invoked after a non-empty result; a toolkit whose adapters all
\* return empty contributes no record.
C1_FallbackOnEmptyResult ==
    /\ \A i, j \in 1..Len(calls) :
          i < j => /\ Rank(calls[i].adapter) < Rank(calls[j].adapter)
                   /\ ResultOf(calls[i]) # "nonempty"
    /\ (GroupResolved /\ \A i \in 1..Len(calls) : ResultOf(calls[i]) = "empty")
          => groupRecords = <<>>

\* the normalisation of raw mapping items found under toolkit g
NormalizedItems(its, g) ==
    SelectSeq([i \in 1..Len(its) |-> make_record(its[i], g)], record_kept)

\* C2: no adapter is invoked twice for a toolkit and no toolkit is fetched
\* twice in a run; when only the HTTP GET, the last adapter, returned a
\* non-empty result, every installed earlier adapter was invoked exactly once
\* and the records of the toolkit are the normalisation of the HTTP items.
C2_OneShotFallback ==
    /\ \A i, j \in 1..Len(calls) : i # j => calls[i].adapter # calls[j].adapter
    /\ \A i, j \in 1..Len(fetched) : i # j => fetched[i] # fetched[j]
    /\ (/\ GroupResolved
        /\ calls # <<>>
        /\ calls[Len(calls)].adapter = "http"
        /\ \A i \in 1..Len(calls) : (ResultOf(calls[i]) = "nonempty") <=> (i = Len(calls)))
          => /\ \A a \in Adapters \ {"http"} :
                   cfg[a] => Cardinality({i \in 1..Len(calls) : calls[i].adapter = a}) = 1
             /\ groupRecords = NormalizedItems(calls[Len(calls)].items, cur)

\* three adapters gave nothing, each invoked once, and the HTTP GET returned
\* two items that became the records of the toolkit
C2_Witness ==
    /\ GroupResolved
    /\ Len(calls) = 4
    /\ \A i \in 1..3 : ResultOf(calls[i]) # "nonempty"
    /\ calls[4].adapter = "http"
    /\ Len(calls[4].items) = 2
    /\ Len(groupRecords) = 2

\* the installed adapter that follows a in the order, or "" when a is the last
NextInstalled(a) ==
    LET later == {b \in Adapters : cfg[b] /\ Rank(b) > Rank(a)}
    IN IF later = {} THEN ""
       ELSE CHOOSE b \in later : \A c \in later : Rank(b) <= Rank(c)

\* C3: when an adapter invocation raises, the next installed adapter is
\* invoked for the same toolkit, and discovery visits every requested toolkit.
C3_RaiseFallsThrough ==
    /\ pc = "norm" =>
          \A i \in 1..Len(calls) :
              (calls[i].raised /\ NextInstalled(calls[i].adapter) # "")
                => \E j \in 1..Len(calls) : calls[j].adapter = NextInstalled(calls[i].adapter)
    /\ (pc = "done" /\ ~hit) => {fetched[i] : i \in 1..Len(fetched)} = desired

\* the file holds, under key k, a well-formed entry no older than the TTL
UnexpiredEntry(k) == EntryWellFormed(k) /\ now - EntryTs(k) <= CacheTtl

\* C4 as stated: while the file holds an unexpired entry under the batch key,
\* whatever its value, no adapter is invoked, and a run served from the cache
\* returns the stored value.
C4_HitOnAnyStoredValue ==
    /\ (InRun /\ calls # <<>>) => ~UnexpiredEntry(cache_key(desired))
    /\ (pc = "done" /\ hit) =>
          /\ EntryWellFormed(cache_key(desired))
          /\ catalog = EntryValue(cache_key(desired))

\* C4 amended: while the file holds an unexpired entry under the batch key
\* whose value is non-empty, the run does no discovery step, so it invokes no
\* adapter, and a run served from the cache returns the stored value, which
\* is non-empty.
C4_HitOnNonEmptyValue ==
    /\ InRun => ~(/\ UnexpiredEntry(cache_key(desired))
                  /\ Truthy(EntryValue(cache_key(desired))))
    /\ (pc = "done" /\ hit) =>
          /\ EntryWellFormed(cache_key(desired))
          /\ catalog = EntryValue(cache_key(desired))
          /\ Truthy(catalog)
          /\ calls = <<>> /\ fetched = <<>>

\* a second run served from the cache with the catalog the first run found
C4_Witness ==
    /\ runs = 2
    /\ pc = "done" /\ hit
    /\ Tag(catalog) = "list" /\ Len(catalog[2]) = 2
    /\ \E i \in 1..2 : DictGet(catalog[2][i], "toolkit") = PyStr("slack")

\* lowercase(slug or id or name)
IdentityKey(r) ==
    Lower(PyOr(PyOr(DictGet(r, "slug"), DictGet(r, "id")), DictGet(r, "name"))[2])

\* C7: after discovery no two records of the catalog share an identity key,
\* every key found has its record, and the record kept for a key is the first
\* one found with it, group included.
C7_DedupFirstWins ==
    (pc = "done" /\ ~hit) =>
        LET c == catalog[2] IN
        /\ \A i, j \in 1..Len(c) : i # j => IdentityKey(c[i]) # IdentityKey(c[j])
        /\ \A n \in 1..Len(tool_catalog) :
              \E i \in 1..Len(c) : IdentityKey(c[i]) = IdentityKey(tool_catalog[n])
        /\ \A i \in 1..Len(c) :
              \E n \in 1..Len(tool_catalog) :
                  /\ c[i] = tool_catalog[n]
                  /\ \A m \in 1..(n - 1) :
                        IdentityKey(tool_catalog[m]) # IdentityKey(c[i])

\* the same key found under both toolkits, in different case: one record is
\* kept, with the toolkit visited first
C7_Witness ==
    /\ pc = "done" /\ ~hit
    /\ Len(fetched) = 2
    /\ \E m, n \in 1..Len(tool_catalog) :
          /\ m < n
          /\ IdentityKey(tool_catalog[m]) = IdentityKey(tool_catalog[n])
          /\ DictGet(tool_catalog[m], "slug") # DictGet(tool_catalog[n], "slug")
          /\ DictGet(tool_catalog[m], "toolkit") = PyStr(fetched[1])
          /\ DictGet(tool_catalog[n], "toolkit") = PyStr(fetched[2])
          /\ \E i \in 1..Len(catalog[2]) : catalog[2][i] = tool_catalog[m]
          /\ \A i \in 1..Len(catalog[2]) : catalog[2][i] # tool_catalog[n]

\* the step ends the discovery part of a run that missed the cache
EndsDiscovery == pc = "fetch" /\ pending = {} /\ pc' # "fetch"

\* C14: whatever the cache write does (directory creation, opening the file
\* or serialising the catalog may fail), discovery ends with the
\* deduplicated catalog it computed and the workflow goes on.
C14_WriteFailureNotRaised ==
    [][EndsDiscovery =>
          /\ pc' = "done"
          /\ catalog' = PyList(dedupe(tool_catalog))]_vars

\* a run whose cache write failed while serialising a non-empty catalog
C14_Witness ==
    /\ pc = "done" /\ ~hit
    /\ op[1] = "save" /\ op[4] = "ok" /\ ret[1] = "raise"
    /\ file = Garbage
    /\ catalog = PyList(dedupe(tool_catalog))
    /\ Len(catalog[2]) > 0

\* the step ends discovery with a cache write that completed: the file
\* then holds, under the run's key, the catalog the run returns, stamped now
StoresReturnedCatalog ==
    (EndsDiscovery /\ ret' = Ret(PyNone)) =>
        /\ file'[1] = "json" /\ Tag(file'[2]) = "dict"
        /\ DictGet(file'[2], cache_key(desired))
              = PyDict([ts |-> PyInt(now), value |-> catalog'])

\* the file is written by no step but the one that ends discovery, after
\* the last toolkit was resolved
WrittenOnceAtEnd == file' # file => EndsDiscovery

\* the run that ended last missed the cache and its cache write completed
StoredByLastRun ==
    /\ pc = "done" /\ ~hit
    /\ op[1] = "save" /\ ret = Ret(PyNone)

\* the step starts a run for the same toolkits as the run before, within
\* the TTL of the entry that run stored
FollowingRunInTtl ==
    /\ StoredByLastRun
    /\ runs' = runs + 1
    /\ desired' = desired
    /\ now - EntryTs(cache_key(desired)) <= CacheTtl

\* C18 as stated: a completed cache write stores the returned catalog, once
\* and after the last toolkit, and a run for the same toolkits within the
\* TTL returns an equal catalog, be it taken from the cache or discovered
\* while the entry is unexpired.
C18_StoredCatalogReturned ==
    [][/\ StoresReturnedCatalog
       /\ WrittenOnceAtEnd
       /\ FollowingRunInTtl => catalog' = catalog
       /\ (EndsDiscovery /\ UnexpiredEntry(cache_key(desired))) =>
              catalog' = EntryValue(cache_key(desired))]_vars

\* C18 amended: a completed cache write stores the returned catalog, once
\* and after the last toolkit; a run for the same toolkits within the TTL
\* takes an equal catalog from the cache when the stored catalog is not
\* empty, and discovers again when it is empty.
C18_StoredNonEmptyCatalogReturned ==
    [][/\ StoresReturnedCatalog
       /\ WrittenOnceAtEnd
       /\ FollowingRunInTtl =>
              IF Truthy(catalog)
              THEN pc' = "done" /\ hit' /\ catalog' = catalog
              ELSE pc' = "fetch" /\ ~hit'
       /\ (EndsDiscovery /\ UnexpiredEntry(cache_key(desired))) =>
              ~Truthy(EntryValue(cache_key(desired)))]_vars

\* a second run that takes from the cache the catalog the first run
\* discovered and stored
C18_Witness ==
    /\ pc = "done" /\ hit /\ runs = 2
    /\ op[1] = "save" /\ ret = Ret(PyNone)
    /\ op[2] = cache_key(desired)
    /\ catalog = op[3]
    /\ Len(catalog[2]) > 0
    /\ EntryValue(cache_key(desired)) = catalog

\* the entries of the current toolkit have just been normalised
Normalized == pc = "fetch" /\ cur # ""

\* the records derived from the entries that give a mapping, in order
DerivedRecords ==
    LET usable == SelectSeq(entries, Dumpable)
    IN [i \in 1..Len(usable) |-> make_record(to_mapping(usable[i]), cur)]

NonNull(r, k) == DictGet(r, k) # PyNone

SlugOrNameNonNull(r) == NonNull(r, "slug") \/ NonNull(r, "name")

SlugOrNameTruthy(r) == Truthy(DictGet(r, "slug")) \/ Truthy(DictGet(r, "name"))

\* C19 as stated: the records kept for a toolkit are exactly the derived
\* records whose slug or name is non-null, in order, whatever was dropped
\* before them; each has one of slug, name, id non-null, and each dropped
\* record has all three null.
C19_KeptIffNonNull ==
    Normalized =>
        /\ groupRecords = SelectSeq(DerivedRecords, SlugOrNameNonNull)
        /\ \A i \in 1..Len(groupRecords) :
              \E k \in {"slug", "name", "id"} : NonNull(groupRecords[i], k)
        /\ \A i \in 1..Len(DerivedRecords) :
              ~SlugOrNameNonNull(DerivedRecords[i]) =>
                  \A k \in {"slug", "name", "id"} : ~NonNull(DerivedRecords[i], k)

\* C19 amended: the records kept for a toolkit are exactly the derived
\* records whose slug or name is truthy (neither null nor empty), in order,
\* whatever was dropped before them; each kept record has its slug or its
\* name non-null, and each dropped record has no truthy slug, name or id.
C19_KeptIffTruthy ==
    Normalized =>
        /\ groupRecords = SelectSeq(DerivedRecords, SlugOrNameTruthy)
        /\ \A i \in 1..Len(groupRecords) : SlugOrNameNonNull(groupRecords[i])
        /\ \A i \in 1..Len(DerivedRecords) :
              ~SlugOrNameTruthy(DerivedRecords[i]) =>
                  \A k \in {"slug", "name", "id"} : ~Truthy(DictGet(DerivedRecords[i], k))

\* an item dropped for its empty name, and the item after it kept
C19_Witness ==
    /\ Normalized
    /\ entries = <<ItemEmptyId, ItemObjId>>
    /\ DictGet(DerivedRecords[1], "name") = PyStr("")
    /\ groupRecords = <<make_record(ItemObjId, cur)>>

\* C20: an entry that has no dump method and is no mapping, but carries a
\* non-null attribute among id, slug, tool_slug, name, gives the record
\* derived from its attributes.
C20_AttributeItemsKept ==
    Normalized =>
        \A i \in 1..Len(entries) :
            (/\ entries[i][1] = "attr"
             /\ \E k \in {"id", "slug", "tool_slug", "name"} :
                    k \in DOMAIN entries[i][2] /\ entries[i][2][k] # PyNone) =>
                \E j \in 1..Len(groupRecords) :
                    groupRecords[j] = make_record(PyDict(entries[i][2]), cur)

\* C32: the records kept for a toolkit are those of one adapter invocation
\* that completed without raising, and an invocation that raised leaves no
\* entry behind.
C32_RecordsFromCompletedCall ==
    GroupResolved =>
        /\ \A i \in 1..Len(calls) : calls[i].raised => calls[i].taken = 0
        /\ groupRecords # <<>> =>
              \E i \in 1..Len(calls) :
                 ~calls[i].raised /\ groupRecords = group_records(calls[i].items, cur)

\* the identifiers an item carries itself, compared without case
OwnIds(m) ==
    {Lower(DictGet(m, k)[2]) :
        k \in {k \in {"id", "slug", "tool_slug"} :
                  DictGet(m, k)[1] = "str" /\ DictGet(m, k)[2] # ""}}

\* the entries of the group just resolved that are normalised
UsableEntries == SelectSeq(entries, Dumpable)

InCatalog(r) == \E n \in 1..Len(dedupe(tool_catalog)) : dedupe(tool_catalog)[n] = r

\* C33: two raw items of a toolkit whose own identifiers (id, slug, tool_slug)
\* differ without regard to case both have their record in the deduplicated
\* catalog, also when both carry the same nested toolkit slug.
C33_DistinctItemsKept ==
    (GroupResolved /\ pending = {}) =>
        \A i, j \in 1..Len(UsableEntries) :
           LET a == to_mapping(UsableEntries[i])
               b == to_mapping(UsableEntries[j])
           IN (/\ i < j
               /\ OwnIds(a) # {} /\ OwnIds(b) # {}
               /\ OwnIds(a) \cap OwnIds(b) = {})
              => /\ InCatalog(make_record(a, cur))
                 /\ InCatalog(make_record(b, cur))

\* the step starts a run of the workflow
RunStarts == runs' = runs + 1

\* C35: a run served from the cache leaves the cache file as it was, the
\* entry it is served from was stored at most CacheTtl before now, a run that
\* starts when the entry under its key is older than that performs discovery,
\* and a completed cache write stamps the entry with the time discovery ended
\* (the time of the write, however long before it the run consulted the
\* cache).
C35_BoundedStaleness ==
    [][/\ (RunStarts /\ hit') =>
              /\ file' = file
              /\ EntryWellFormed(cache_key(desired'))
              /\ now - EntryTs(cache_key(desired')) <= CacheTtl
              /\ catalog' = EntryValue(cache_key(desired'))
       /\ (RunStarts /\ EntryWellFormed(cache_key(desired'))
                     /\ now - EntryTs(cache_key(desired')) > CacheTtl) =>
              pc' = "fetch" /\ ~hit'
       /\ (EndsDiscovery /\ ret' = Ret(PyNone)) =>
              DictGet(DictGet(file'[2], cache_key(desired)), "ts") = PyInt(now)]_vars

\* the second run is served, at the very end of the TTL, the catalog the
\* first run stored; the clock moved while the first run was discovering, so
\* that the entry is younger than the lookup of the first run
C35_Witness ==
    /\ runs = 2 /\ pc = "done" /\ hit
    /\ delayed
    /\ op[1] = "save" /\ op[2] = cache_key(desired) /\ ret = Ret(PyNone)
    /\ EntryWellFormed(cache_key(desired))
    /\ now - EntryTs(cache_key(desired)) = CacheTtl
    /\ catalog = op[3]

----------------------------------------------------------------------------
(* Claims on execution *)

\* the calls made for the n-th action, in order
CallsOf(n) == SelectSeq(xcalls, LAMBDA c : c.n = n)

Returned(c) == c.out[1] = "ret"

\* the strategies of the dispatcher in the order of the code
StrategyOrder ==
    IF inst.disp = "workflow" THEN <<"v3", "legacy">>
    ELSE [i \in 1..4 |-> "actions." \o MethodNames[i]]
         \o [i \in 1..4 |-> "client." \o MethodNames[i]] \o <<"http">>

StrategyRank(s) == CHOOSE i \in 1..Len(StrategyOrder) : StrategyOrder[i] = s

\* the strategy can be invoked for the request r with the installed clients
Usable(s, r) ==
    CASE s = "v3" -> inst.v3
      [] s = "legacy" ->
            /\ inst.composio = "actions"
            /\ inst.members # PyNone /\ r.action \in inst.members[2]
      [] s = "http" -> inst.http
      [] OTHER ->
            \E i \in 1..4 :
               \/ s = "actions." \o MethodNames[i]
                    /\ inst.api # PyNone /\ MethodNames[i] \in inst.api[2]
               \/ s = "client." \o MethodNames[i] /\ MethodNames[i] \in inst.methods

\* C22: within one execute call the strategies are invoked in the fixed
\* order, each at most once, and a strategy is invoked only after every
\* earlier one was unavailable, skipped or raised; the versioned client is
\* given the action id as a string and the legacy client the enum member;
\* the POST carries the envelope {action, params} and is made only when the
\* client has a low-level handle.
C22_FixedOrder ==
    \A n \in 1..Len(actions) :
        LET cs == CallsOf(n) IN
        /\ \A i, j \in 1..Len(cs) : i < j => StrategyRank(cs[i].strategy) < StrategyRank(cs[j].strategy)
        /\ \A j \in 1..Len(cs) : \A k \in 1..(StrategyRank(cs[j].strategy) - 1) :
              \/ ~Usable(StrategyOrder[k], actions[n])
              \/ \E i \in 1..(j - 1) :
                    cs[i].strategy = StrategyOrder[k] /\ ~Returned(cs[i])
        /\ \A j \in 1..Len(cs) :
              /\ cs[j].strategy = "v3" => cs[j].tool = PyStr(actions[n].action)
              /\ cs[j].strategy = "legacy" => cs[j].tool = <<"enum", actions[n].action>>
              /\ cs[j].strategy = "http" =>
                    /\ inst.http
                    /\ DOMAIN cs[j].body[2] = {"action", "params"}
                    /\ DictGet(cs[j].body, "action") = PyStr(actions[n].action)

\* the POST is reached after an earlier method raised, and the legacy client
\* after the versioned client raised
C22_Witness ==
    /\ xcalls # <<>>
    /\ LET c == xcalls[Len(xcalls)] IN
         /\ c.strategy \in {"http", "legacy"}
         /\ Len(CallsOf(c.n)) >= 2
         /\ Returned(c)

ReservedKeys == {"connected_account_id", "user_id", "allow_tracing"}

\* the keys of the generic mapping a call forwards (None forwards no key)
ForwardedKeys(c) == IF c.params = PyNone THEN {} ELSE DOMAIN c.params[2]

\* the keys of the caller outside the reserved ones reach the call unchanged
OtherKeysForwarded(c) ==
    LET p == actions[c.n].params IN
    \A k \in (DOMAIN p[2]) \ ReservedKeys :
        k \in ForwardedKeys(c) /\ c.params[2][k] = p[2][k]

\* C23: in every call made to a strategy, versioned client, legacy client or
\* HTTP POST, the forwarded generic mapping does not hold the key
\* connected_account_id when the caller's params held it, and the caller's
\* other keys are forwarded unchanged.
C23_AccountIdNotForwarded ==
    \A i \in 1..Len(xcalls) :
        /\ "connected_account_id" \in DOMAIN actions[xcalls[i].n].params[2]
              => "connected_account_id" \notin ForwardedKeys(xcalls[i])
        /\ OtherKeysForwarded(xcalls[i])

\* C24: the versioned and the legacy strategy forward none of the reserved
\* keys connected_account_id, user_id, allow_tracing inside the generic
\* mapping.
C24_ReservedKeysNotForwarded ==
    \A i \in 1..Len(xcalls) :
        xcalls[i].strategy \in {"v3", "legacy"}
            => ForwardedKeys(xcalls[i]) \cap ReservedKeys = {}

\* _execute_action has returned for the action at idx
ExecReturned == xpc \in {"returned", "done"}

\* the payload execute gives for the result a call returned
NormalizedResult(c) ==
    LET r == c.out[2] IN
    IF Tag(r) = "dict" THEN r
    ELSE IF Tag(r) = "model" THEN PyDict(r[2])
    ELSE IF c.strategy = "v3" THEN PyDict([data |-> r])
    ELSE PyDict([status |-> r[2].status, data |-> r[2].data, raw |-> PyStr("<object>")])

\* C25: the first call that returns without raising ends the execute call:
\* no strategy is invoked after it, its normalised result is what execute
\* returns, also when the result is an error payload, and every call made
\* before another call raised.
C25_FirstReturnDecides ==
    /\ \A n \in 1..Len(actions) :
          LET cs == CallsOf(n) IN \A j \in 1..(Len(cs) - 1) : ~Returned(cs[j])
    /\ ExecReturned =>
          LET cs == CallsOf(idx) IN
          cs # <<>> /\ Returned(cs[Len(cs)]) => outcome = NormalizedResult(cs[Len(cs)])

\* the versioned client returns an error payload while the legacy client
\* could have executed the action: the payload is returned, nothing follows
C25_Witness ==
    /\ xpc = "returned"
    /\ Usable("legacy", actions[idx])
    /\ Len(CallsOf(idx)) = 1
    /\ CallsOf(idx)[1].strategy = "v3"
    /\ CallsOf(idx)[1].out = Ret(ErrorPayload)
    /\ outcome = ErrorPayload

HasMember(a) == inst.members # PyNone /\ a \in inst.members[2]

\* C26: the legacy client's execute is never called for an action id that
\* has no member in the legacy enum, or when the enum is not importable.
C26_NoMemberNoLegacyCall ==
    \A i \in 1..Len(xcalls) :
        xcalls[i].strategy = "legacy" => HasMember(actions[xcalls[i].n].action)

\* the legacy client is installed and reached, the id has no member, and
\* execute returns without a legacy call
C26_Witness ==
    /\ xpc = "returned"
    /\ inst.composio = "actions"
    /\ ~HasMember(actions[idx].action)
    /\ \A i \in 1..Len(CallsOf(idx)) : ~Returned(CallsOf(idx)[i])
    /\ outcome = ErrNotFound

\* no call of the execute call at idx returned
NothingReturned ==
    /\ inst.disp = "workflow"
    /\ xpc = "returned"
    /\ \A i \in 1..Len(CallsOf(idx)) : ~Returned(CallsOf(idx)[i])

LegacyRaised ==
    \E i \in 1..Len(CallsOf(idx)) :
        CallsOf(idx)[i].strategy = "legacy" /\ ~Returned(CallsOf(idx)[i])

\* C27, as stated: when every strategy failed or was skipped, execute
\* returns composio_client_unavailable or legacy_action_not_found: the first
\* when there is no usable legacy client, the second when there is one.
C27_ClosedCodes ==
    NothingReturned =>
        /\ outcome \in {ErrUnavailable, ErrNotFound}
        /\ outcome = ErrUnavailable <=> inst.composio # "actions"

\* C27: when no strategy returned, execute returns composio_client_unavailable
\* iff there is no usable legacy client, legacy_action_not_found iff there is
\* one and the id has no enum member, and otherwise, the legacy call having
\* raised, {"error": text of the exception}.
C27_CodesOrExceptionText ==
    NothingReturned =>
        /\ outcome = ErrUnavailable <=> inst.composio # "actions"
        /\ outcome = ErrNotFound <=>
              inst.composio = "actions" /\ ~HasMember(actions[idx].action)
        /\ outcome \notin {ErrUnavailable, ErrNotFound} =>
              /\ LegacyRaised
              /\ LET cs == CallsOf(idx) IN
                   outcome = PyDict([error |-> PyStr(cs[Len(cs)].out[2].msg)])

\* both strategies were invoked and raised
C27_Witness ==
    /\ NothingReturned
    /\ Len(CallsOf(idx)) = 2
    /\ LegacyRaised
    /\ outcome = PyDict([error |-> PyStr("connection refused")])

\* C28, as stated: without a versioned client, an action id that has no
\* legacy enum member gives exactly legacy_action_not_found.
C28_NotFoundWithoutV3 ==
    (inst.disp = "workflow" /\ xpc = "returned" /\ ~inst.v3
       /\ ~HasMember(actions[idx].action))
        => outcome = ErrNotFound

\* C28: without a versioned client and with a legacy client that has the
\* attribute "actions", an action id that has no legacy enum member gives
\* exactly legacy_action_not_found, whatever the params.
C28_NotFoundWithLegacyClient ==
    (inst.disp = "workflow" /\ xpc = "returned" /\ ~inst.v3
       /\ inst.composio = "actions" /\ ~HasMember(actions[idx].action))
        => outcome = ErrNotFound /\ CallsOf(idx) = <<>>

\* execute("UNKNOWN_ACTION", {}) with an importable enum and no versioned client
C28_Witness ==
    /\ inst.disp = "workflow" /\ xpc = "returned" /\ ~inst.v3
    /\ inst.composio = "actions" /\ inst.members # PyNone
    /\ actions[idx] = [action |-> "UNKNOWN_ACTION", params |-> EmptyDict]
    /\ outcome = ErrNotFound

\* C29: execute always returns a mapping, and the loop records one result
\* per action it has gone through, in the order of the actions, whatever
\* the earlier results were.
C29_OneResultPerAction ==
    inst.disp = "workflow" =>
        /\ xpc = "returned" => Tag(outcome) = "dict"
        /\ Len(execution_results) = idx - 1
        /\ idx <= Len(actions) + 1
        /\ \A i \in 1..Len(execution_results) :
              /\ execution_results[i].action = actions[i].action
              /\ Tag(execution_results[i].result) = "dict"
        /\ \A i \in 1..Len(xcalls) : xcalls[i].n <= idx

\* the first action failed in every strategy and the second was executed
C29_Witness ==
    /\ inst.disp = "workflow"
    /\ xpc = "idle" /\ idx = Len(actions) + 1 /\ Len(actions) = 2
    /\ Len(CallsOf(1)) = 2 /\ \A i \in 1..2 : ~Returned(CallsOf(1)[i])
    /\ "error" \in DOMAIN execution_results[1].result[2]
    /\ CallsOf(2) # <<>>
    /\ execution_results[2].result = OkPayload

RaisedTypeError(c) == ~Returned(c) /\ c.out[2].exc = "TypeError"

\* C30: a TypeError raised by an execution method is not logged as a
\* failure, not recorded in the error list and not returned to the caller.
C30_TypeErrorSilent ==
    /\ \A i \in 1..Len(xlog) : xlog[i].exc # "TypeError"
    /\ \A i \in 1..Len(errors) :
          /\ \A st \in {"actions", "client"} : \A m \in 1..Len(MethodNames) :
                errors[i] # script_error(st, MethodNames[m], ExcTypeError)
          /\ errors[i] # PyStr("HTTP POST /v3/actions failed: " \o ExcTypeError.msg)
    /\ ExecReturned =>
          outcome # PyDict([error |-> ExcStr(ExcTypeError)])

\* the account handed out-of-band to the strategies of action n agrees
\* between the versioned call and a legacy call made after it
SameAccountOutOfBand ==
    \A i, j \in 1..Len(xcalls) :
        (/\ xcalls[i].n = xcalls[j].n
         /\ xcalls[i].strategy = "v3" /\ xcalls[j].strategy = "legacy")
        => /\ xcalls[j].oob[2].connected_account = xcalls[i].oob[2].connected_account_id
           /\ xcalls[j].oob[2].connected_account =
                 DictPopValue(actions[xcalls[j].n].params, "connected_account_id", PyNone)

\* C34: no step of the execution changes the params mapping of an action
\* definition, so the definitions reported afterwards keep every key, and a
\* legacy call made after the versioned call raised is given the same
\* connected_account_id out-of-band as the versioned call was.
C34_ParamsUnchanged ==
    [][actions' = actions /\ SameAccountOutOfBand']_vars

\* the versioned call of an action with an account raised and the legacy
\* call was made with that account
C34_Witness ==
    /\ inst.disp = "workflow"
    /\ xpc = "returned"
    /\ "connected_account_id" \in DOMAIN actions[idx].params[2]
    /\ Len(CallsOf(idx)) = 2
    /\ CallsOf(idx)[1].strategy = "v3" /\ ~Returned(CallsOf(idx)[1])
    /\ CallsOf(idx)[2].strategy = "legacy"
    /\ CallsOf(idx)[2].oob[2].connected_account = PyStr("ca_1")
    /\ DOMAIN CallsOf(idx)[2].params[2] = {"foo"}

\* the script's dispatcher has returned its failure record
ScriptExhausted ==
    /\ inst.disp = "script" /\ xpc = "done"
    /\ Tag(outcome) = "dict" /\ "details" \in DOMAIN outcome[2]

\* C37: when the script's caller passed a list of its own, empty or not,
\* that list equals the "details" of the failure record once every method
\* was tried in vain.
C37_CallerListHoldsDetails ==
    (ScriptExhausted /\ given_errors # PyNone) =>
        given_errors = DictGet(outcome, "details")

----------------------------------------------------------------------------
(* Claims on concurrent saves *)

BothDone == \A p \in Procs : writers[p].pc = "done"

FirstWriter == flushOrder[1]
LastWriter == flushOrder[Len(flushOrder)]

\* both processes read the file before either opened it for write, and
\* they save different keys
RacingSaves ==
    /\ \A p \in Procs : writers[p].opensSeen = 0
    /\ writers[1].key # writers[2].key

\* C15 as stated: after two concurrent saves the file is the payload of the
\* process that wrote last, and when both read before either wrote and the
\* keys differ, the key of the process that wrote first is absent.
C15_LastWriterWins ==
    BothDone =>
        /\ file = JsonFile(writers[LastWriter].payload)
        /\ RacingSaves => writers[FirstWriter].key \notin DOMAIN file[2][2]

\* C15 amended: after two concurrent saves the file is the payload of the
\* process that wrote last, unless that write went over bytes the other
\* process wrote after the last writer's open, in which case the file may
\* be a mix that does not parse. When both read before either wrote and
\* the keys differ, the file holds (if it parses) nothing of the first
\* writer's save: its key is absent or holds the entry it held before.
C15_LastWriterWinsOrMix ==
    BothDone =>
        /\ file \in {JsonFile(writers[LastWriter].payload), Garbage}
        /\ ~writers[LastWriter].overwrote =>
                file = JsonFile(writers[LastWriter].payload)
        /\ (RacingSaves /\ file # Garbage) =>
                DictGet(file[2], writers[FirstWriter].key)
                    = DictGet(writers[FirstWriter].seen, writers[FirstWriter].key)

\* a lost update: both read the file before either wrote, and the key of
\* the first writer is absent from the final file
C15_Witness ==
    /\ BothDone /\ RacingSaves
    /\ file = JsonFile(writers[LastWriter].payload)
    /\ writers[FirstWriter].key \notin DOMAIN file[2][2]
    /\ writers[LastWriter].key \in DOMAIN file[2][2]

----------------------------------------------------------------------------
(* Claims on the cache key *)

SameToolkits == desired_toolkits(whitelistA) = desired_toolkits(whitelistB)

\* C17: two whitelists give the same cache key exactly when they denote the
\* same set of toolkits, so the catalog a run discovered and stored is what
\* the cache gives a second run when it asks for the same set, and nothing
\* of it is given to a run that asks for a different set.
C17_KeyOfSet ==
    /\ kstage # "raw" => (keyA = keyB <=> SameToolkits)
    /\ kstage = "looked" =>
          /\ SameToolkits => ret = Ret(catalogA)
          /\ ~SameToolkits => ret = Ret(PyList(<<>>))

\* the same two toolkits written in another order, with a blank and a
\* duplicate, find the two records the first run stored
C17_Witness ==
    /\ kstage = "looked"
    /\ whitelistA = <<"env", <<"gmail", "slack">> >>
    /\ whitelistB = <<"env", <<" slack", "gmail", "slack">> >>
    /\ keyA = keyB
    /\ Len(catalogA[2]) = 2
    /\ catalogA[2][1] = make_record(ItemSlugB, "slack")
    /\ ret = Ret(catalogA)

----------------------------------------------------------------------------
(* Claims on a load during a save *)

\* C36: a load that runs while a save is under way does not raise, and for
\* the key being saved it returns None, the value the file held before the
\* save, or the value being saved as json reads it back.
C36_LoadDuringSave ==
    loader.pc = "done" =>
        /\ loader.out[1] = "ret"
        /\ loader.key = saver.key =>
              loader.out[2] \in {PyNone, saver.before, JsonRoundTrip(saver.value)}

\* the load read the file between the truncation and the close of a save
\* that replaces a stored value, and returned None
C36_Witness ==
    /\ loader.pc = "done" /\ saver.pc = "writing"
    /\ loader.key = saver.key
    /\ saver.before # PyNone
    /\ loader.saw = Garbage
    /\ loader.out = Ret(PyNone)

----------------------------------------------------------------------------
(* Claims on the listing script *)

\* the methods and adapters the client "which" can use for a toolkit
InstalledSites(which) ==
    IF lcfg[which] = PyNone THEN {}
    ELSE lcfg[which][2].methods
         \cup (IF lcfg.v3_client # PyNone THEN {"v3"} ELSE {})
         \cup (IF lcfg[which][2].http THEN {"http"} ELSE {})

\* list_tools has just finished a toolkit
ToolkitReported == lpc = "toolkit" /\ printed # <<>>

\* C31: a failure is reported for a toolkit only if every method and adapter
\* that could be used for it was invoked and raised; when some invocation
\* returned a result, even an empty one, no failure is reported.
C31_ReportedOnlyIfAllFailed ==
    ToolkitReported =>
        LET p == printed[Len(printed)] IN
        /\ p.failed =>
              \A which \in {"v3_client", "primary_client"} :
                 \A s \in InstalledSites(which) :
                    \E i \in 1..Len(lcalls) :
                       /\ lcalls[i].client = which /\ lcalls[i].site = s
                       /\ lcalls[i].out[1] = "raise"
        /\ (\E i \in 1..Len(lcalls) : lcalls[i].out[1] = "ret") => ~p.failed

----------------------------------------------------------------------------
(* Claims on the Slack alert *)

\* the terms configured in RISK_TERMS
ConfiguredTerms == {str_strip(wf.risk_env[i]) : i \in 1..Len(wf.risk_env)} \ {""}

\* the research text holds a configured term, whatever the case of either
HasRiskTerm ==
    \E t \in ConfiguredTerms : str_contains(str_lower(research_text), str_lower(t))

\* the positions of the catalog records of group slack whose slug holds kw
SlackRecords(kw) ==
    {i \in 1..Len(wf.tool_catalog) :
        /\ DictGet(wf.tool_catalog[i], "toolkit") = PyStr("slack")
        /\ Tag(DictGet(wf.tool_catalog[i], "slug")) = "str"
        /\ str_contains(str_lower(DictGet(wf.tool_catalog[i], "slug")[2]), kw)}

FirstOf(S) == CHOOSE i \in S : \A j \in S : i <= j

\* the slug of the record to post with: post_message before send_message
PreferredSlug ==
    IF SlackRecords("post_message") # {}
    THEN DictGet(wf.tool_catalog[FirstOf(SlackRecords("post_message"))], "slug")
    ELSE DictGet(wf.tool_catalog[FirstOf(SlackRecords("send_message"))], "slug")

\* the action posts to a Slack channel
IsSlackAlert(a) ==
    \/ "channel" \in DOMAIN DictGet(a, "params")[2]
    \/ \E i \in 1..Len(wf.tool_catalog) :
          /\ DictGet(wf.tool_catalog[i], "toolkit") = PyStr("slack")
          /\ DictGet(wf.tool_catalog[i], "slug") = DictGet(a, "action")

\* C38: a Slack alert is prepared only when the research text holds a
\* configured risk term (case ignored), a Slack account and channel are
\* configured and the catalog has a record of group slack whose slug holds
\* post_message or send_message, the former preferred; an executed action
\* that posts to Slack is the prepared one, so none is executed when no risk
\* term occurs.
C38_SlackOnlyOnRisk ==
    /\ (spc # "research" /\ slack_action # PyNone) =>
          /\ HasRiskTerm
          /\ wf.slack_account_id # "" /\ wf.slack_channel # ""
          /\ SlackRecords("post_message") \cup SlackRecords("send_message") # {}
          /\ DictGet(slack_action, "action") = PreferredSlug
    /\ \A i \in 1..Len(executed) :
          IsSlackAlert(executed[i]) => HasRiskTerm /\ executed[i] = slack_action

\* an alert executed for a text that holds a term in another case, with the
\* post_message record chosen although a send_message record comes first
C38_Witness ==
    /\ spc = "executed"
    /\ research_text = "High RISK ahead"
    /\ SlackRecords("send_message") # {} /\ SlackRecords("post_message") # {}
    /\ FirstOf(SlackRecords("send_message")) < FirstOf(SlackRecords("post_message"))
    /\ \E i \in 1..Len(executed) :
          /\ executed[i] = slack_action
          /\ DictGet(executed[i], "action") = PyStr("SLACK_POST_MESSAGE")

\* the text of the first block of a prepared alert
AlertOf(a) ==
    DictGet(DictGet(DictGet(DictGet(a, "params"), "blocks")[2][2][1], "text"), "text")[2]

\* the heading and the stripped research text, before any cut
WholeAlert ==
    "*Attention required for " \o wf.ticker \o "*" \o "\n" \o str_strip(research_text)

\* C39: the text of a prepared alert has at most max_block_chars characters:
\* a longer one is cut to its first max_block_chars - 3 characters followed
\* by "...", and one within the limit is left as it is.
C39_AlertTextBounded ==
    (spc # "research" /\ slack_action # PyNone) =>
        /\ Len(AlertOf(slack_action)) <= max_block_chars
        /\ Len(WholeAlert) > max_block_chars =>
              AlertOf(slack_action) = SubSeq(WholeAlert, 1, max_block_chars - 3) \o "..."
        /\ Len(WholeAlert) <= max_block_chars => AlertOf(slack_action) = WholeAlert

\* an alert one character over the limit was cut to exactly the limit
C39_Witness ==
    /\ spc # "research" /\ slack_action # PyNone
    /\ Len(WholeAlert) = max_block_chars + 1
    /\ Len(AlertOf(slack_action)) = max_block_chars
    /\ SubSeq(AlertOf(slack_action), max_block_chars - 2, max_block_chars) = "..."

====
